---- MODULE Spec2Model ----
(***************************************************************************)
(* Model of the Zone.EU Terraform provider: the rate-limited, retrying     *)
(* HTTP transport of internal/provider/client.go, and the record           *)
(* reconciliation handlers of internal/provider/resource_dns_*_record.go.  *)
(*                                                                         *)
(* Time is kept relative to the current instant: every deadline is stored  *)
(* as the number of seconds that still have to elapse, and Tick lowers all *)
(* of them together.                                                       *)
(***************************************************************************)
EXTENDS Integers, Sequences, FiniteSets, TLC

VARIABLES
    \* ---- transport core (client.go) ----
    mu,                  \* Client.mu: 0 when free, else the caller holding it
    calls,               \* logical API calls started so far
    rateLimitLimit,      \* Client.rateLimitLimit
    rateLimitRemaining,  \* Client.rateLimitRemaining
    rateLimitResetAt,    \* Client.rateLimitResetAt, as seconds from now (0: not in the future)
    pc,                  \* position of each caller inside doRequestWithContext
    attempt,             \* loop variable `attempt` of each caller
    lastErr,             \* local `lastErr` of each caller
    ctxDone,             \* whether the caller's context is cancelled
    sleepLeft,           \* seconds left of the caller's current time.Sleep
    result,              \* what the caller's doRequestWithContext returned
    \* ---- observation of the transport (history) ----
    sends,               \* HTTP attempts issued by the caller's current call
    lastResp,            \* what came back for the caller's latest attempt, as received
    waited,              \* seconds elapsed since the caller's latest 429 arrived
    heard,               \* rate-limit headers of the response handled by the step just taken
    \* ---- reconciliation layer (resource_dns_*_record.go) ----
    kind,                \* which record resource the behaviour exercises
    remote,              \* the remote record list of the zone, in list order
    nextId,              \* next id the remote API hands out
    tfstate,             \* the resource's entry in Terraform state
    last,                \* outcome of the latest resource operation
    \* ---- domain layer (resource_domain.go, resource_domain_nameserver.go) ----
    domain,              \* the settings of the domain at the remote API
    nameservers,         \* the nameserver list of the domain at the remote API
    dstate,              \* the domain resource's entry in Terraform state
    nsstate,             \* the nameserver resource's entry in Terraform state
    dlast,               \* outcome of the latest domain or nameserver operation
    \* ---- response decoding (client.go) ----
    respBody,            \* a response body handed to a single-object decode
    decoded,             \* what the decode returned for it
    \* ---- nameserver Creates under way at the same time ----
    creates              \* per hostname: how far its Create has got, and with what

tvars == <<mu, calls, rateLimitLimit, rateLimitRemaining, rateLimitResetAt, pc, attempt,
           lastErr, ctxDone, sleepLeft, result, sends, lastResp, waited, heard>>
rvars == <<kind, remote, nextId, tfstate, last>>
dvars == <<domain, nameservers, dstate, nsstate, dlast>>
cvars == <<respBody, decoded>>
nvars == <<creates>>
vars == <<mu, calls, rateLimitLimit, rateLimitRemaining, rateLimitResetAt, pc, attempt,
          lastErr, ctxDone, sleepLeft, result, sends, lastResp, waited, heard,
          kind, remote, nextId, tfstate, last,
          domain, nameservers, dstate, nsstate, dlast,
          respBody, decoded, creates>>

----------------------------------------------------------------------------
(* Bounds of the model *)

\* number of goroutines sharing one Client
NumCallers == 2
\* logical API calls started in one behaviour, over all callers
MaxCalls == 2
\* records the zone holds at once
MaxRecords == 2
\* ids the remote API hands out in one behaviour
MaxId == 3
\* records of a zone listing that the find functions are tried on
MaxListed == 3
\* elements of a response body handed to a decode
MaxBody == 3

Callers == 1..NumCallers

----------------------------------------------------------------------------
(* Program constants *)

defaultRateLimit == 60
\* rateLimitResetPeriod = time.Minute, in seconds
rateLimitResetPeriod == 60
maxRetries == 3

----------------------------------------------------------------------------
(* Errors.  An error is known by its class, the HTTP status it reports, the *)
(* Retry-After duration of a RateLimitError, and `marks`: which of the      *)
(* substrings the handlers search for occur in its Error() text.            *)

Markers == {"404", "not found", "zone_conflict"}

NoErr == [class |-> "none", status |-> 0, retryAfter |-> 0, marks |-> {}, wraps |-> "none"]

MkErr(class, status, retryAfter, marks, wraps) ==
    [class |-> class, status |-> status, retryAfter |-> retryAfter, marks |-> marks,
     wraps |-> wraps]

\* The decimal digits of a status code, as far as the markers see them.
StatusMarks(status) == IF status = 404 THEN {"404"} ELSE {}

\* fmt.Errorf("API error (status %d): %s", resp.StatusCode, errMsg)
ApiError(status, bodyMarks) ==
    MkErr("api", status, 0, StatusMarks(status) \cup bodyMarks, "none")

\* &RateLimitError{RetryAfter: retryAfter, Message: statusMsg}
RateLimitError(retryAfter, msgMarks) ==
    MkErr("ratelimit", 429, retryAfter, msgMarks, "none")

\* fmt.Errorf("error performing request: %w", err)
TransportError(causeMarks, cause) ==
    MkErr("transport", 0, 0, causeMarks, cause)

\* ctx.Err()
CtxErr == MkErr("ctx", 0, 0, {}, "none")

\* fmt.Errorf("max retries exceeded: %w", lastErr)
MaxRetriesError(e) ==
    MkErr("max_retries", e.status, e.retryAfter, e.marks, e.class)

\* strings.Contains(err.Error(), s)
Contains(e, s) == s \in e.marks

----------------------------------------------------------------------------
(* HTTP responses the remote API may give *)

Statuses == {200, 429, 500}

\* A header value: absent, present but not an integer, or an integer.
Absent == [present |-> FALSE, numeric |-> FALSE, val |-> 0]
Garbled == [present |-> TRUE, numeric |-> FALSE, val |-> 0]
Num(v) == [present |-> TRUE, numeric |-> TRUE, val |-> v]

LimitHeaders == {Absent, Garbled, Num(30)}
RemainingHeaders == {Absent, Garbled, Num(0), Num(7)}
RetryAfterHeaders == {Absent, Garbled, Num(30)}

\* Retry-After accompanies a 429 only
Responses ==
    {r \in [status : Statuses, limit : LimitHeaders, remaining : RemainingHeaders,
            retryAfter : RetryAfterHeaders] :
        r.status # 429 => r.retryAfter = Absent}

Min(a, b) == IF a < b THEN a ELSE b
Max(a, b) == IF a > b THEN a ELSE b

\* RetryAfterOf with the default of one minute lost
RetryAfterOfNoDefault(h) ==
    IF h.present /\ h.numeric THEN h.val ELSE 0

\* the Retry-After handling of doRequestOnce, in seconds
RetryAfterOf(h) ==
    IF h.present /\ h.numeric THEN h.val ELSE rateLimitResetPeriod

\* HeaderUpdate storing what Atoi returned without looking at its error
HeaderUpdateUnchecked(old, h) == IF h.present THEN h.val ELSE old

\* updateRateLimitInfo: the new value of a counter given its header
HeaderUpdate(old, h) == IF h.present /\ h.numeric THEN h.val ELSE old

\* the status handling of doRequestOnce: the error of a response, NoErr for 2xx
ErrorOfResponse(resp) ==
    IF resp.status = 429 THEN RateLimitError(RetryAfterOf(resp.retryAfter), {})
    ELSE IF resp.status < 200 \/ resp.status >= 300 THEN ApiError(resp.status, {})
    ELSE NoErr

----------------------------------------------------------------------------
(* Transport core: doRequestWithContext, one caller per goroutine *)

NoResult == [type |-> "none", err |-> NoErr]

\* what an attempt got back: nothing yet, a response, or a failure of Do
\* of the Retry-After header it keeps what strconv.Atoi makes of it
Atoi(h) == [numeric |-> h.present /\ h.numeric,
            val |-> IF h.present /\ h.numeric THEN h.val ELSE 0]
NoResp == [got |-> "nothing", status |-> 0, retryAfter |-> Atoi(Absent), cause |-> "none"]
Got(resp) == [got |-> "response", status |-> resp.status,
              retryAfter |-> Atoi(resp.retryAfter), cause |-> "none"]
Failed(cause) == [got |-> "failure", status |-> 0, retryAfter |-> Atoi(Absent),
                  cause |-> cause]
Returned(type, e) == [type |-> type, err |-> e]

\* what strconv.Atoi made of the two rate-limit headers of a response
NoHeaders == [seen |-> FALSE, limit |-> Atoi(Absent), remaining |-> Atoi(Absent)]
HeadersOf(resp) == [seen |-> TRUE, limit |-> Atoi(resp.limit),
                    remaining |-> Atoi(resp.remaining)]
\* the step taken handled no response
Unheard == heard' = NoHeaders

Sleeping(c) == pc[c] \in {"ratewait", "backoff"}

TInit ==
    /\ mu = 0
    /\ rateLimitLimit = defaultRateLimit
    /\ rateLimitRemaining = defaultRateLimit
    /\ rateLimitResetAt = 0
    /\ calls = 0
    /\ pc = [c \in Callers |-> "idle"]
    /\ attempt = [c \in Callers |-> 0]
    /\ lastErr = [c \in Callers |-> NoErr]
    /\ ctxDone = [c \in Callers |-> FALSE]
    /\ sleepLeft = [c \in Callers |-> 0]
    /\ result = [c \in Callers |-> NoResult]
    /\ sends = [c \in Callers |-> 0]
    /\ lastResp = [c \in Callers |-> NoResp]
    /\ waited = [c \in Callers |-> 0]
    /\ heard = NoHeaders

\* doRequestWithContext returns; its locals and its context go out of scope
Return(c, type, e) ==
    /\ pc' = [pc EXCEPT ![c] = "done"]
    /\ result' = [result EXCEPT ![c] = Returned(type, e)]
    /\ attempt' = [attempt EXCEPT ![c] = 0]
    /\ lastErr' = [lastErr EXCEPT ![c] = NoErr]
    /\ ctxDone' = [ctxDone EXCEPT ![c] = FALSE]
    /\ waited' = [waited EXCEPT ![c] = 0]

\* a caller enters doRequestWithContext with a context that may already be cancelled
StartCall(c) ==
    /\ pc[c] \in {"idle", "done"}
    /\ calls < MaxCalls
    /\ calls' = calls + 1
    /\ \E cancelled \in BOOLEAN : ctxDone' = [ctxDone EXCEPT ![c] = cancelled]
    /\ pc' = [pc EXCEPT ![c] = "loop"]
    /\ attempt' = [attempt EXCEPT ![c] = 0]
    /\ lastErr' = [lastErr EXCEPT ![c] = NoErr]
    /\ result' = [result EXCEPT ![c] = NoResult]
    /\ sends' = [sends EXCEPT ![c] = 0]
    /\ lastResp' = [lastResp EXCEPT ![c] = NoResp]
    /\ waited' = [waited EXCEPT ![c] = 0]
    /\ sleepLeft' = [sleepLeft EXCEPT ![c] = 0]
    /\ UNCHANGED <<mu, rateLimitLimit, rateLimitRemaining, rateLimitResetAt>>

\* the caller's context is cancelled while its call is under way
Cancel(c) ==
    /\ pc[c] \notin {"idle", "done"}
    /\ ~ctxDone[c]
    /\ ctxDone' = [ctxDone EXCEPT ![c] = TRUE]
    /\ UNCHANGED <<mu, rateLimitLimit, rateLimitRemaining, rateLimitResetAt, calls, pc,
                   attempt, lastErr, sleepLeft, result, sends, lastResp, waited>>

\* LoopExhausted off by one
LoopExhaustedOffByOne(a) == ~(a <= maxRetries)

\* the loop condition `attempt < maxRetries` no longer holds
LoopExhausted(a) == ~(a < maxRetries)

\* CtxSelected never taking the ctx.Done() case
CtxSelectedNever(c) == FALSE

\* the select at the top of the loop body: whether the case <-ctx.Done() is taken
CtxSelected(c) == ctxDone[c]

\* the loop condition `attempt < maxRetries`, then the select on ctx.Done()
LoopTop(c) ==
    /\ pc[c] = "loop"
    /\ IF LoopExhausted(attempt[c])
       THEN Return(c, "error", MaxRetriesError(lastErr[c]))
       ELSE IF CtxSelected(c)
       THEN Return(c, "error", CtxErr)
       ELSE /\ pc' = [pc EXCEPT ![c] = "wait"]
            /\ UNCHANGED <<result, attempt, lastErr, ctxDone, waited>>
    /\ UNCHANGED <<mu, rateLimitLimit, rateLimitRemaining, rateLimitResetAt, calls,
                   sleepLeft, sends, lastResp>>

\* waitForRateLimit: c.mu.Lock()
WaitLock(c) ==
    /\ pc[c] = "wait"
    /\ mu = 0
    /\ mu' = c
    /\ pc' = [pc EXCEPT ![c] = "wait_locked"]
    /\ UNCHANGED <<rateLimitLimit, rateLimitRemaining, rateLimitResetAt, calls, attempt,
                   lastErr, ctxDone, sleepLeft, result, sends, lastResp, waited>>

\* MustWait without the look at the reset time
MustWaitOnExhaustion == ~(rateLimitRemaining > 0)

\* waitForRateLimit: whether the caller has to sleep, decided under the lock
MustWait == ~(rateLimitRemaining > 0) /\ rateLimitResetAt > 0

\* UnlockedForSleep without the Unlock: the caller sleeps holding the mutex
HeldThroughSleep(c) == c

\* waitForRateLimit: the holder of the mutex once c.mu.Unlock() has run, just
\* before time.Sleep(waitDuration)
UnlockedForSleep(c) == 0

\* waitForRateLimit: the checks made under the lock, up to the return (the
\* deferred Unlock runs) or up to c.mu.Unlock() and the start of time.Sleep
WaitCheck(c) ==
    /\ pc[c] = "wait_locked"
    /\ mu = c
    /\ mu' = (IF MustWait THEN UnlockedForSleep(c) ELSE 0)
    /\ IF MustWait
       THEN /\ pc' = [pc EXCEPT ![c] = "ratewait"]
            /\ sleepLeft' = [sleepLeft EXCEPT ![c] = rateLimitResetAt]
       ELSE /\ pc' = [pc EXCEPT ![c] = "send"]
            /\ UNCHANGED sleepLeft
    /\ UNCHANGED <<rateLimitLimit, rateLimitRemaining, rateLimitResetAt, calls, attempt,
                   lastErr, ctxDone, result, sends, lastResp, waited>>

\* waitForRateLimit: the sleep is over; c.mu.Lock() again
WaitRelock(c) ==
    /\ pc[c] = "ratewait"
    /\ sleepLeft[c] = 0
    /\ mu = 0
    /\ mu' = c
    /\ pc' = [pc EXCEPT ![c] = "wait_exit"]
    /\ UNCHANGED <<rateLimitLimit, rateLimitRemaining, rateLimitResetAt, calls, attempt,
                   lastErr, ctxDone, sleepLeft, result, sends, lastResp, waited>>

\* waitForRateLimit: the function returns and the deferred Unlock runs
WaitExit(c) ==
    /\ pc[c] = "wait_exit"
    /\ mu = c
    /\ mu' = 0
    /\ pc' = [pc EXCEPT ![c] = "send"]
    /\ UNCHANGED <<rateLimitLimit, rateLimitRemaining, rateLimitResetAt, calls, attempt,
                   lastErr, ctxDone, sleepLeft, result, sends, lastResp, waited>>

\* doRequestOnce up to c.httpClient.Do(req): the request goes out, unless the
\* context is already cancelled, in which case Do fails without sending
Send(c) ==
    /\ pc[c] = "send"
    /\ IF ctxDone[c]
       THEN /\ Return(c, "error", TransportError({}, "ctx"))
            /\ lastResp' = [lastResp EXCEPT ![c] = Failed("ctx")]
            /\ UNCHANGED sends
       ELSE /\ pc' = [pc EXCEPT ![c] = "inflight"]
            /\ sends' = [sends EXCEPT ![c] = @ + 1]
            /\ UNCHANGED <<result, lastResp, attempt, lastErr, waited, ctxDone>>
    /\ UNCHANGED <<mu, rateLimitLimit, rateLimitRemaining, rateLimitResetAt, calls,
                   sleepLeft>>

\* c.httpClient.Do(req) fails: a connection error, or the context is cancelled
\* while the request is in flight.  The error is not a *RateLimitError, so
\* doRequestWithContext returns it.
DoFails(c) ==
    /\ pc[c] = "inflight"
    /\ LET cause == IF ctxDone[c] THEN "ctx" ELSE "net"
       IN /\ lastResp' = [lastResp EXCEPT ![c] = Failed(cause)]
          /\ Return(c, "error", TransportError({}, cause))
    /\ UNCHANGED <<mu, rateLimitLimit, rateLimitRemaining, rateLimitResetAt, calls,
                   sleepLeft, sends>>

\* Dispatch retrying every failed attempt, whatever its error
DispatchRetryAll(c, e) ==
    IF e = NoErr
    THEN Return(c, "ok", NoErr)
    ELSE /\ pc' = [pc EXCEPT ![c] = "mark"]
         /\ lastErr' = [lastErr EXCEPT ![c] = e]
         /\ waited' = [waited EXCEPT ![c] = 0]
         /\ UNCHANGED <<result, attempt, ctxDone>>

\* the dispatch of doRequestWithContext on the outcome e of an attempt
Dispatch(c, e) ==
    IF e = NoErr
    THEN Return(c, "ok", NoErr)
    ELSE IF e.class = "ratelimit"
    THEN /\ pc' = [pc EXCEPT ![c] = "mark"]
         /\ lastErr' = [lastErr EXCEPT ![c] = e]
         /\ waited' = [waited EXCEPT ![c] = 0]
         /\ UNCHANGED <<result, attempt, ctxDone>>
    ELSE Return(c, "error", e)

\* a response arrives: updateRateLimitInfo (Lock .. Unlock), then the status
\* handling of doRequestOnce and the dispatch of doRequestWithContext
Receive(c) ==
    /\ pc[c] = "inflight"
    /\ mu = 0
    /\ mu' = 0
    /\ \E resp \in Responses :
         LET e == ErrorOfResponse(resp) IN
         /\ rateLimitLimit' = HeaderUpdate(rateLimitLimit, resp.limit)
         /\ rateLimitRemaining' = HeaderUpdate(rateLimitRemaining, resp.remaining)
         /\ lastResp' = [lastResp EXCEPT ![c] = Got(resp)]
         /\ heard' = HeadersOf(resp)
         /\ Dispatch(c, e)
    /\ UNCHANGED <<rateLimitResetAt, calls, sleepLeft, sends>>

\* the RateLimitError branch: Lock, remaining = 0, resetAt = now + RetryAfter,
\* Unlock, then time.Sleep(rateLimitErr.RetryAfter) begins
MarkAndSleep(c) ==
    /\ pc[c] = "mark"
    /\ mu = 0
    /\ mu' = 0
    /\ rateLimitRemaining' = 0
    /\ rateLimitResetAt' = Max(lastErr[c].retryAfter, 0)
    /\ sleepLeft' = [sleepLeft EXCEPT ![c] = Max(lastErr[c].retryAfter, 0)]
    /\ pc' = [pc EXCEPT ![c] = "backoff"]
    /\ UNCHANGED <<rateLimitLimit, calls, attempt, lastErr, ctxDone, result, sends,
                   lastResp, waited>>

\* the backoff sleep is over: `continue`, so attempt++
BackoffWake(c) ==
    /\ pc[c] = "backoff"
    /\ sleepLeft[c] = 0
    /\ attempt' = [attempt EXCEPT ![c] = @ + 1]
    /\ pc' = [pc EXCEPT ![c] = "loop"]
    /\ UNCHANGED <<mu, rateLimitLimit, rateLimitRemaining, rateLimitResetAt, calls,
                   lastErr, ctxDone, sleepLeft, result, sends, lastResp, waited>>

\* the deadlines that are still ahead
Pending ==
    {sleepLeft[c] : c \in {x \in Callers : Sleeping(x) /\ sleepLeft[x] > 0}}
    \cup (IF rateLimitResetAt > 0 THEN {rateLimitResetAt} ELSE {})

Earliest == CHOOSE d \in Pending : \A e \in Pending : d <= e

\* time passes, up to the earliest deadline
Tick ==
    /\ Pending # {}
    /\ LET d == Earliest IN
         /\ sleepLeft' = [c \in Callers |-> Max(sleepLeft[c] - d, 0)]
         /\ waited' = [c \in Callers |->
                         IF pc[c] \in {"idle", "done"} \/ lastResp[c].status # 429
                         THEN waited[c]
                         ELSE Min(waited[c] + d, rateLimitResetPeriod)]
         /\ rateLimitResetAt' = Max(rateLimitResetAt - d, 0)
    /\ UNCHANGED <<mu, rateLimitLimit, rateLimitRemaining, calls, pc, attempt, lastErr,
                   ctxDone, result, sends, lastResp>>

----------------------------------------------------------------------------
(* Names.  A name is the sequence of its characters, so that the suffix    *)
(* handling of the find functions is computed, not assumed.                *)

zone == <<"z">>
Dot == <<".">>

\* the fully-qualified form of a zone-relative name
Fq(h) == h \o Dot \o zone

\* the names a configuration may declare: a host, its fully-qualified form,
\* and another host, so that an Update may rename a record
Names == {<<"a">>, Fq(<<"a">>), <<"b">>}
Destinations == {"d1"}
\* the destinations of records that others put into the zone
ForeignDestinations == {"d0"}

\* strings.HasSuffix
HasSuffix(s, suffix) ==
    /\ Len(s) >= Len(suffix)
    /\ SubSeq(s, Len(s) - Len(suffix) + 1, Len(s)) = suffix

\* strings.TrimSuffix
TrimSuffix(s, suffix) ==
    IF HasSuffix(s, suffix) THEN SubSeq(s, 1, Len(s) - Len(suffix)) ELSE s

\* a nil *DNSRecord
NoRecord == [id |-> 0, name |-> <<>>, destination |-> ""]

\* the loop condition of the find functions with the normalisation left out
MatchesRawOnly(r, zn, name) == r.name = name

\* the loop condition of FindXRecordByNameWithContext and FindAllX...
Matches(r, zn, name) ==
    LET zoneSuffix == Dot \o zn
        searchName == TrimSuffix(name, zoneSuffix)
        recordName == TrimSuffix(r.name, zoneSuffix)
    IN recordName = searchName \/ r.name = name

RECURSIVE FindFrom(_, _, _, _)
FindFrom(records, i, zn, name) ==
    IF i > Len(records) THEN NoRecord
    ELSE IF Matches(records[i], zn, name) THEN records[i]
    ELSE FindFrom(records, i + 1, zn, name)

\* FindXRecordByNameWithContext, given the listed records
FindRecordByName(records, zn, name) == FindFrom(records, 1, zn, name)

\* FindAllXRecordsByNameWithContext that stops at the first match
FindAllRecordsByNameFirstOnly(records, zn, name) ==
    LET r == FindFrom(records, 1, zn, name)
    IN IF r = NoRecord THEN <<>> ELSE <<r>>

\* FindAllXRecordsByNameWithContext, given the listed records
FindAllRecordsByName(records, zn, name) ==
    SelectSeq(records, LAMBDA r : Matches(r, zn, name))

\* FindXRecordByNameWithContext: the list call, its error returned as it is
FindRecordByNameWithContext(eList, records, zn, name) ==
    IF eList # NoErr THEN [err |-> eList, found |-> <<>>]
    ELSE LET r == FindRecordByName(records, zn, name)
         IN [err |-> NoErr, found |-> IF r = NoRecord THEN <<>> ELSE <<r>>]

\* FindAllXRecordsByNameWithContext: the list call, its error returned as it is
FindAllRecordsByNameWithContext(eList, records, zn, name) ==
    IF eList # NoErr THEN [err |-> eList, found |-> <<>>]
    ELSE [err |-> NoErr, found |-> FindAllRecordsByName(records, zn, name)]

----------------------------------------------------------------------------
(* The record resources.  The handlers of the record kinds are the same    *)
(* code up to four features, which each kind's source file has or lacks.   *)

\* one kind for each combination of features that occurs; the handlers of
\* "srv" read as those of "cname", "tlsa" as "caa", "ns" as "mx"; the later
\* generation of the ns and url handlers (part_008, resource_domain.go)
\* reads as "cname"
Kinds == {"cname", "caa", "aaaa", "url", "mx"}

\* Create looks for an existing record first when force_recreate is set
HasForceRecreate(k) == k \in {"cname", "srv", "caa", "tlsa", "aaaa", "url"}
\* Create adopts the existing record on zone_conflict
AdoptsOnConflict(k) == k \in {"cname", "srv", "caa", "tlsa"}
\* Update deletes all duplicates and recreates on zone_conflict
EscalatesOnUpdate(k) == k \in {"cname", "srv"}
\* Delete treats a not-found error as success
DeleteIgnoresNotFound(k) == k \in {"cname", "srv", "caa", "tlsa", "aaaa"}

\* no entry in Terraform state
NoState == [id |-> <<>>, record_id |-> 0, name |-> <<>>, destination |-> "",
            force_recreate |-> FALSE]

\* FormatID leaving the record id out
FormatIDZoneOnly(zn, rid) == <<zn>>

\* fmt.Sprintf("%s/%s", zone, recordID)
FormatID(zn, rid) == <<zn, rid>>

\* parseRecordID
parseRecordID(id) ==
    IF Len(id) = 2 THEN [ok |-> TRUE, zone |-> id[1], recordID |-> id[2]]
    ELSE [ok |-> FALSE, zone |-> <<>>, recordID |-> 0]

\* the model written to state by resp.State.Set(ctx, &data)
StateOf(plan, zn, rid) ==
    [id |-> FormatID(zn, rid), record_id |-> rid, name |-> plan.name,
     destination |-> plan.destination, force_recreate |-> plan.force_recreate]

Plans == [name : Names, destination : Destinations, force_recreate : BOOLEAN]

----------------------------------------------------------------------------
(* The remote API, as the handlers see it through the client: a call       *)
(* succeeds and takes effect, or fails with an error and has no effect.    *)

E404 == ApiError(404, {})
EConflict == ApiError(422, {"zone_conflict"})
E500 == ApiError(500, {})
\* a 500 whose body, which Error() quotes, has the words "not found" in it
E500NotFound == ApiError(500, {"not found"})
\* the "Parse Error" diagnostic of a handler given a malformed id
ParseError == MkErr("parse", 0, 0, {}, "none")

Ids(records) == {records[i].id : i \in 1..Len(records)}
IdSeq(records) == [i \in 1..Len(records) |-> records[i].id]
Present(records, rid) == rid \in Ids(records)
Lookup(records, rid) ==
    IF Present(records, rid)
    THEN records[CHOOSE i \in 1..Len(records) : records[i].id = rid]
    ELSE NoRecord

\* the answers the API can give to each call
ListErrs == {NoErr, E500}
PostErrs(records, nid) ==
    (IF Len(records) < MaxRecords /\ nid <= MaxId THEN {NoErr} ELSE {})
    \cup {EConflict, E500}
PutErrs(records, rid) ==
    IF Present(records, rid) THEN {NoErr, EConflict, E500} ELSE {E404, E500}
DeleteErrs(records, rid) ==
    (IF Present(records, rid) THEN {NoErr, E500} ELSE {E404, E500}) \cup {E500NotFound}
GetErrs(records, rid) ==
    (IF Present(records, rid) THEN {NoErr, E500} ELSE {E404, E500}) \cup {E500NotFound}

\* the form in which the API keeps a name it was sent: as sent, or zone-relative
StoredForms(name) == {name, TrimSuffix(name, Dot \o zone)}

SrvPost(records, nid, name, destination) ==
    Append(records, [id |-> nid, name |-> name, destination |-> destination])
SrvPut(records, rid, name, destination) ==
    [i \in 1..Len(records) |->
        IF records[i].id = rid
        THEN [id |-> rid, name |-> name, destination |-> destination]
        ELSE records[i]]
SrvDelete(records, rid) == SelectSeq(records, LAMBDA r : r.id # rid)

\* one request of the log of an operation
Req(m, rid, name, destination, e, ret) ==
    [m |-> m, id |-> rid, name |-> name, destination |-> destination, err |-> e,
     ret |-> ret]
ReqList(e, ret) == Req("LIST", 0, <<>>, "", e, IF e = NoErr THEN ret ELSE <<>>)
ReqPost(plan, e, nid) ==
    Req("POST", 0, plan.name, plan.destination, e, IF e = NoErr THEN <<nid>> ELSE <<>>)
ReqPut(rid, plan, e) == Req("PUT", rid, plan.name, plan.destination, e, <<>>)
ReqDelete(rid, e) == Req("DELETE", rid, <<>>, "", e, <<>>)
ReqGet(rid, e) == Req("GET", rid, <<>>, "", e, <<>>)

\* what a handler leaves behind
Outcome(records, nid, st, e, log) ==
    [remote |-> records, nextId |-> nid, state |-> st, err |-> e, log |-> log]

----------------------------------------------------------------------------
(* Create *)

\* the adoption test without the nil check on the record
AdoptableUnchecked(findErr, existing) == findErr = NoErr

\* the adoption test of the zone_conflict branch
Adoptable(findErr, existing) == findErr = NoErr /\ existing # NoRecord

\* the zone_conflict branch with the creation error surfaced in every case
CreateFailedSurfaces(k, plan, records, nid, e, eFind2, log) ==
    IF AdoptsOnConflict(k) /\ Contains(e, "zone_conflict")
    THEN LET existing == FindRecordByName(records, zone, plan.name)
         IN Outcome(records, nid, NoState, e,
                    Append(log, ReqList(eFind2, IdSeq(FindAllRecordsByName(
                                  records, zone, plan.name)))))
    ELSE Outcome(records, nid, NoState, e, log)

\* the branch of Create taken when the create call failed with error e:
\* adoption on zone_conflict, else the creation error
CreateFailed(k, plan, records, nid, e, eFind2, log) ==
    IF AdoptsOnConflict(k) /\ Contains(e, "zone_conflict")
    THEN LET existing == IF eFind2 = NoErr
                         THEN FindRecordByName(records, zone, plan.name)
                         ELSE NoRecord
             log2 == Append(log, ReqList(eFind2, IdSeq(FindAllRecordsByName(
                                  records, zone, plan.name))))
         IN IF Adoptable(eFind2, existing)
            THEN Outcome(records, nid, StateOf(plan, zone, existing.id), NoErr, log2)
            ELSE Outcome(records, nid, NoState, e, log2)
    ELSE Outcome(records, nid, NoState, e, log)

\* Create from the construction of `record` on: the create call and its outcome
CreatePlain(k, plan, records, nid, ePost, stored, eFind2, log) ==
    LET log1 == Append(log, ReqPost(plan, ePost, nid))
    IN IF ePost = NoErr
       THEN Outcome(SrvPost(records, nid, stored, plan.destination), nid + 1,
                    StateOf(plan, zone, nid), NoErr, log1)
       ELSE CreateFailed(k, plan, records, nid, ePost, eFind2, log1)

\* a Create that never looks for an existing record
CreateRecordNoLookup(k, plan, records, nid, eFind, ePut, ePost, stored, eFind2) ==
    CreatePlain(k, plan, records, nid, ePost, stored, eFind2, <<>>)

\* the Create handler of a record resource of kind k
CreateRecord(k, plan, records, nid, eFind, ePut, ePost, stored, eFind2) ==
    IF HasForceRecreate(k) /\ plan.force_recreate
    THEN LET existing == FindRecordByName(records, zone, plan.name)
             ret == IdSeq(FindAllRecordsByName(records, zone, plan.name))
         IN IF eFind # NoErr
            THEN Outcome(records, nid, NoState, eFind, <<ReqList(eFind, ret)>>)
            ELSE IF existing # NoRecord
            THEN LET log == <<ReqList(NoErr, ret), ReqPut(existing.id, plan, ePut)>>
                 IN IF ePut # NoErr
                    THEN Outcome(records, nid, NoState, ePut, log)
                    ELSE Outcome(SrvPut(records, existing.id, stored, plan.destination),
                                 nid, StateOf(plan, zone, existing.id), NoErr, log)
            ELSE CreatePlain(k, plan, records, nid, ePost, stored, eFind2,
                             <<ReqList(NoErr, ret)>>)
    ELSE CreatePlain(k, plan, records, nid, ePost, stored, eFind2, <<>>)

----------------------------------------------------------------------------
(* Update *)

\* the delete loop of the escalation, from the i-th record on
RECURSIVE DeleteFrom(_, _, _, _)
DeleteFrom(all, i, eDel, acc) ==
    IF i > Len(all) THEN acc
    ELSE DeleteFrom(all, i + 1, eDel,
                    [remote |-> IF eDel[i] = NoErr
                                THEN SrvDelete(acc.remote, all[i].id)
                                ELSE acc.remote,
                     log |-> Append(acc.log, ReqDelete(all[i].id, eDel[i]))])

\* a delete loop that leaves the last duplicate alone
DeleteAllButLast(all, eDel, acc) ==
    DeleteFrom(SubSeq(all, 1, Len(all) - 1), 1, eDel, acc)

\* the delete loop of the escalation: every record found, errors not fatal
DeleteAll(all, eDel, acc) == DeleteFrom(all, 1, eDel, acc)

\* the escalation of Update: find all, delete each, create afresh
Escalate(k, plan, st, records, nid, eFindAll, eDel, ePost, stored, log) ==
    LET all == FindAllRecordsByName(records, zone, plan.name)
    IN IF eFindAll # NoErr
       THEN Outcome(records, nid, st, eFindAll, Append(log, ReqList(eFindAll, <<>>)))
       ELSE LET d == DeleteAll(all, eDel,
                               [remote |-> records,
                                log |-> Append(log, ReqList(NoErr, IdSeq(all)))])
                log2 == Append(d.log, ReqPost(plan, ePost, nid))
            IN IF ePost # NoErr
               THEN Outcome(d.remote, nid, st, ePost, log2)
               ELSE Outcome(SrvPost(d.remote, nid, stored, plan.destination), nid + 1,
                            StateOf(plan, zone, nid), NoErr, log2)

\* an Update that escalates on zone_conflict whatever force_recreate says
UpdateRecordAlwaysEscalates(k, plan, st, records, nid, ePut, eFindAll, eDel, ePost, stored) ==
    LET parsed == parseRecordID(st.id)
        rid == parsed.recordID
        log == <<ReqPut(rid, plan, ePut)>>
    IN IF ~parsed.ok THEN Outcome(records, nid, st, ParseError, <<>>)
       ELSE IF ePut = NoErr
       THEN Outcome(SrvPut(records, rid, stored, plan.destination), nid,
                    StateOf(plan, parsed.zone, rid), NoErr, log)
       ELSE IF EscalatesOnUpdate(k) /\ Contains(ePut, "zone_conflict")
       THEN Escalate(k, plan, st, records, nid, eFindAll, eDel, ePost, stored, log)
       ELSE Outcome(records, nid, st, ePut, log)

\* the Update handler of a record resource of kind k; st is the prior state
UpdateRecord(k, plan, st, records, nid, ePut, eFindAll, eDel, ePost, stored) ==
    LET parsed == parseRecordID(st.id)
        rid == parsed.recordID
        log == <<ReqPut(rid, plan, ePut)>>
    IN IF ~parsed.ok THEN Outcome(records, nid, st, ParseError, <<>>)
       ELSE IF ePut = NoErr
       THEN Outcome(SrvPut(records, rid, stored, plan.destination), nid,
                    StateOf(plan, parsed.zone, rid), NoErr, log)
       ELSE IF EscalatesOnUpdate(k) /\ Contains(ePut, "zone_conflict")
               /\ plan.force_recreate
       THEN Escalate(k, plan, st, records, nid, eFindAll, eDel, ePost, stored, log)
       ELSE Outcome(records, nid, st, ePut, log)

----------------------------------------------------------------------------
(* Read and Delete *)

\* the Read handler
ReadRecord(k, st, records, nid, eGet) ==
    LET parsed == parseRecordID(st.id)
        rid == parsed.recordID
        record == Lookup(records, rid)
        log == <<ReqGet(rid, eGet)>>
    IN IF ~parsed.ok THEN Outcome(records, nid, st, ParseError, <<>>)
       ELSE IF eGet # NoErr
       THEN IF Contains(eGet, "404") \/ Contains(eGet, "not found")
            THEN Outcome(records, nid, NoState, NoErr, log)
            ELSE Outcome(records, nid, st, eGet, log)
       ELSE Outcome(records, nid,
                    [st EXCEPT !.name = record.name, !.destination = record.destination,
                               !.record_id = record.id],
                    NoErr, log)

\* the Delete handler of a record resource of kind k; the framework drops
\* the resource from state when the handler reports no error
DeleteRecord(k, st, records, nid, eDelete) ==
    LET parsed == parseRecordID(st.id)
        rid == parsed.recordID
        log == <<ReqDelete(rid, eDelete)>>
    IN IF ~parsed.ok THEN Outcome(records, nid, st, ParseError, <<>>)
       ELSE IF eDelete # NoErr
       THEN IF DeleteIgnoresNotFound(k)
               /\ (Contains(eDelete, "404") \/ Contains(eDelete, "not found"))
            THEN Outcome(records, nid, NoState, NoErr, log)
            ELSE Outcome(records, nid, st, eDelete, log)
       ELSE Outcome(SrvDelete(records, rid), nid, NoState, NoErr, log)

----------------------------------------------------------------------------
(* The reconciliation layer as a state machine: one resource of one kind,  *)
(* its zone's record list, and whoever else edits that list.               *)

NoPlan == [name |-> <<>>, destination |-> "", force_recreate |-> FALSE]
NoOp == [op |-> "none", plan |-> NoPlan, err |-> NoErr, log |-> <<>>]

RInit ==
    /\ kind \in Kinds
    /\ remote = <<>>
    /\ nextId = 1
    /\ tfstate = NoState
    /\ last = NoOp

\* the plans the schema of kind k admits
PlansOf(k) == {plan \in Plans : HasForceRecreate(k) \/ ~plan.force_recreate}

\* the answers to a call that is made only under cond
Only(cond, errs) == IF cond THEN errs ELSE {NoErr}

\* the form the API keeps the name in, where the operation stores one
StoredAs(name, stores) == IF stores THEN StoredForms(name) ELSE {name}

\* a handler has run with outcome R
Apply(op, plan, R) ==
    /\ Len(R.remote) <= MaxRecords
    /\ last' = [op |-> op, plan |-> plan, err |-> R.err, log |-> R.log]
    /\ remote' = R.remote
    /\ nextId' = R.nextId
    /\ tfstate' = R.state
    /\ UNCHANGED kind

Create ==
    /\ tfstate = NoState
    /\ \E plan \in PlansOf(kind) :
       LET existing == FindRecordByName(remote, zone, plan.name) IN
       \E eFind \in Only(plan.force_recreate, ListErrs) :
       \E ePut \in Only(plan.force_recreate /\ eFind = NoErr /\ existing # NoRecord,
                        PutErrs(remote, existing.id)) :
       \E ePost \in Only(~plan.force_recreate \/ (eFind = NoErr /\ existing = NoRecord),
                         PostErrs(remote, nextId)) :
       \E eFind2 \in Only(AdoptsOnConflict(kind) /\ Contains(ePost, "zone_conflict"),
                          ListErrs) :
       \E stored \in StoredAs(plan.name, eFind = NoErr /\ ePut = NoErr /\ ePost = NoErr) :
          Apply("Create", plan,
                CreateRecord(kind, plan, remote, nextId, eFind, ePut, ePost, stored,
                             eFind2))

Update ==
    /\ tfstate # NoState
    /\ \E plan \in PlansOf(kind) :
       \E ePut \in PutErrs(remote, tfstate.record_id) :
       LET all == FindAllRecordsByName(remote, zone, plan.name)
           esc == /\ EscalatesOnUpdate(kind)
                  /\ plan.force_recreate
                  /\ Contains(ePut, "zone_conflict")
       IN
       \E eFindAll \in Only(esc, ListErrs) :
       \E eDel \in [1..Len(all) -> Only(esc /\ eFindAll = NoErr, {NoErr, E500})] :
       \E ePost \in Only(esc /\ eFindAll = NoErr,
                         (IF nextId <= MaxId THEN {NoErr} ELSE {}) \cup {EConflict, E500}) :
       \E stored \in StoredAs(plan.name, eFindAll = NoErr /\ ePost = NoErr
                                         /\ (esc \/ ePut = NoErr)) :
          Apply("Update", plan,
                UpdateRecord(kind, plan, tfstate, remote, nextId, ePut, eFindAll, eDel,
                             ePost, stored))

Read ==
    /\ tfstate # NoState
    /\ \E eGet \in GetErrs(remote, tfstate.record_id) :
         Apply("Read", NoPlan, ReadRecord(kind, tfstate, remote, nextId, eGet))

Delete ==
    /\ tfstate # NoState
    /\ \E eDelete \in DeleteErrs(remote, tfstate.record_id) :
         Apply("Delete", NoPlan, DeleteRecord(kind, tfstate, remote, nextId, eDelete))

\* somebody else creates a record in the zone
ExternalCreate ==
    /\ Len(remote) < MaxRecords
    /\ nextId <= MaxId
    /\ \E name \in Names, destination \in ForeignDestinations :
         remote' = SrvPost(remote, nextId, name, destination)
    /\ nextId' = nextId + 1
    /\ last' = NoOp
    /\ UNCHANGED <<kind, tfstate>>

\* somebody else deletes a record of the zone
ExternalDelete ==
    /\ \E rid \in Ids(remote) : remote' = SrvDelete(remote, rid)
    /\ last' = NoOp
    /\ UNCHANGED <<kind, nextId, tfstate>>

(* The domain resource and the domain nameserver resource                  *)
(* (resource_domain.go, resource_domain_nameserver.go) over the domain     *)
(* calls of client.go.  One registered domain; its settings and its        *)
(* nameserver list live at the remote API.                                 *)

DomainName == "dom"
Hostnames == {"ns1", "ns2"}
\* glue addresses a plan may give, and the one foreign entries carry
IpLists == {<<>>, <<"ip1">>}
ForeignIp == <<"ip0">>

\* the settings of a domain the provider manages
DomainSettings == [autorenew : BOOLEAN, dnssec : BOOLEAN, nameservers_custom : BOOLEAN,
                   renewal_notifications : BOOLEAN]

\* a *bool field: nil, or a pointer to a value
Nil == <<>>
Ptr(b) == <<b>>

\* type DomainUpdate struct
MkDomainUpdate(autorenew, dnssec, nsCustom) ==
    [autorenew |-> autorenew, dnssec |-> dnssec, nameservers_custom |-> nsCustom]

\* json.Marshal of a DomainUpdate: `omitempty` leaves out the nil pointers
MarshalDomainUpdate(u) ==
    [f \in {g \in DOMAIN u : u[g] # Nil} |-> u[f][1]]

\* json.Marshal of a DomainPreferences whose resource_url is empty
MarshalDomainPreferences(renewalNotifications) ==
    [renewal_notifications |-> renewalNotifications]

\* the fields each endpoint takes from the body of a PUT
PutFields(path) ==
    IF path = "domain" THEN {"autorenew", "dnssec", "nameservers_custom"}
    ELSE IF path = "preferences" THEN {"renewal_notifications"}
    ELSE {}

\* the remote API applies a PUT: the fields sent replace the stored ones
SrvPutDomain(dom, path, body) ==
    [f \in DOMAIN dom |->
        IF f \in DOMAIN body /\ f \in PutFields(path) THEN body[f] ELSE dom[f]]

\* fmt.Errorf("domain not found: %s", name) and its kin for an empty array
EmptyArrayError == MkErr("parse", 0, 0, {"not found"}, "none")

\* the answers the API can give to the domain calls
DomainErrs == {NoErr, E500}
NsItemErrs(nss, h) ==
    IF \E i \in 1..Len(nss) : nss[i].hostname = h
    THEN {NoErr, E500}
    ELSE {E404, EmptyArrayError, E500}

\* one request of the log of a domain or nameserver operation
DReq(m, path, host, body, list, e) ==
    [m |-> m, path |-> path, host |-> host, body |-> body, list |-> list, err |-> e]
NoBody == [f \in {} |-> FALSE]

\* GetDomain
ReqGetDomain(e) == DReq("GET", "domain", "", NoBody, <<>>, e)
\* UpdateDomain
ReqUpdateDomain(u, e) == DReq("PUT", "domain", "", MarshalDomainUpdate(u), <<>>, e)
\* GetDomainPreferences
ReqGetDomainPreferences(e) == DReq("GET", "preferences", "", NoBody, <<>>, e)
\* UpdateDomainPreferences sent to the domain endpoint with the whole settings
ReqUpdateDomainPreferencesWide(renewalNotifications, e) ==
    DReq("PUT", "domain", "",
         [autorenew |-> FALSE, dnssec |-> FALSE,
          renewal_notifications |-> renewalNotifications], <<>>, e)
\* UpdateDomainPreferences
ReqUpdateDomainPreferences(renewalNotifications, e) ==
    DReq("PUT", "preferences", "", MarshalDomainPreferences(renewalNotifications), <<>>, e)
\* GetDomainNameservers
ReqGetDomainNameservers(e) == DReq("GET", "nameserver", "", NoBody, <<>>, e)
\* GetDomainNameserver
ReqGetDomainNameserver(h, e) == DReq("GET", "nameserver", h, NoBody, <<>>, e)
\* CreateDomainNameservers
ReqCreateDomainNameservers(list, e) == DReq("POST", "nameserver", "", NoBody, list, e)
\* UpdateDomainNameserver
ReqUpdateDomainNameserver(h, ns, e) == DReq("PUT", "nameserver", h, NoBody, <<ns>>, e)
\* DeleteDomainNameserver
ReqDeleteDomainNameserver(h, e) == DReq("DELETE", "nameserver", h, NoBody, <<>>, e)

\* the effect of one logged request on the domain's settings
SrvDomainAfter(dom, req) ==
    IF req.err = NoErr /\ req.m = "PUT" THEN SrvPutDomain(dom, req.path, req.body) ELSE dom

\* what a domain or nameserver handler leaves behind
DOutcome(dom, nss, st, e, log) ==
    [domain |-> dom, nameservers |-> nss, state |-> st, err |-> e, log |-> log]

\* no domain in Terraform state
NoDomainState == [name |-> "", autorenew |-> FALSE, dnssec |-> FALSE,
                  nameservers_custom |-> FALSE, renewal_notifications |-> FALSE]

\* the state written by Create, Update and Read of the domain resource
DomainStateOf(dom, renewalNotifications) ==
    [name |-> DomainName, autorenew |-> dom.autorenew, dnssec |-> dom.dnssec,
     nameservers_custom |-> dom.nameservers_custom,
     renewal_notifications |-> renewalNotifications]

\* Create and Update of the domain resource from UpdateDomain on
DomainApplyPlan(plan, st, dom, nss, ePut, ePrefs, log) ==
    LET put == ReqUpdateDomain(MkDomainUpdate(Ptr(plan.autorenew), Ptr(plan.dnssec),
                                              Ptr(plan.nameservers_custom)), ePut)
        dom1 == SrvDomainAfter(dom, put)
        prefs == ReqUpdateDomainPreferences(plan.renewal_notifications, ePrefs)
        dom2 == SrvDomainAfter(dom1, prefs)
    IN IF ePut # NoErr THEN DOutcome(dom, nss, st, ePut, log \o <<put>>)
       ELSE IF ePrefs # NoErr THEN DOutcome(dom1, nss, st, ePrefs, log \o <<put, prefs>>)
       ELSE DOutcome(dom2, nss, DomainStateOf(dom1, plan.renewal_notifications), NoErr,
                     log \o <<put, prefs>>)

\* (r *DomainResource) Create
DomainResourceCreate(plan, st, dom, nss, eGet, ePut, ePrefs) ==
    LET log == <<ReqGetDomain(eGet)>>
    IN IF eGet # NoErr THEN DOutcome(dom, nss, st, eGet, log)
       ELSE DomainApplyPlan(plan, st, dom, nss, ePut, ePrefs, log)

\* (r *DomainResource) Read
DomainResourceRead(st, dom, nss, eGet, eGetPrefs) ==
    LET get == ReqGetDomain(eGet)
        getPrefs == ReqGetDomainPreferences(eGetPrefs)
    IN IF eGet # NoErr THEN DOutcome(dom, nss, st, eGet, <<get>>)
       ELSE IF eGetPrefs # NoErr THEN DOutcome(dom, nss, st, eGetPrefs, <<get, getPrefs>>)
       ELSE DOutcome(dom, nss, DomainStateOf(dom, dom.renewal_notifications), NoErr,
                     <<get, getPrefs>>)

\* (r *DomainResource) Update
DomainResourceUpdate(plan, st, dom, nss, ePut, ePrefs) ==
    DomainApplyPlan(plan, st, dom, nss, ePut, ePrefs, <<>>)

\* DeleteReset with nameservers_custom switched off as well
DeleteResetAll == MkDomainUpdate(Ptr(FALSE), Ptr(FALSE), Ptr(FALSE))

\* the update Delete sends: autorenew and dnssec off, nameservers_custom not set
DeleteReset == MkDomainUpdate(Ptr(FALSE), Ptr(FALSE), Nil)

\* (r *DomainResource) Delete; the framework drops the resource from state
\* when the handler reports no error
DomainResourceDelete(st, dom, nss, ePut) ==
    LET put == ReqUpdateDomain(DeleteReset, ePut)
    IN DOutcome(SrvDomainAfter(dom, put), nss, NoDomainState, NoErr, <<put>>)

\* (c *Client) UpdateDomainPreferences, called on its own
UpdateDomainPreferences(renewalNotifications, st, dom, nss, ePrefs) ==
    LET prefs == ReqUpdateDomainPreferences(renewalNotifications, ePrefs)
    IN DOutcome(SrvDomainAfter(dom, prefs), nss, st, ePrefs, <<prefs>>)

(* the nameserver resource *)

\* no nameserver in Terraform state
NoNameserverState == [id |-> <<>>, domain |-> "", hostname |-> "", ip |-> <<>>]

\* type DomainNameserver struct
MkDomainNameserver(hostname, ip) == [hostname |-> hostname, ip |-> ip]

NameserverPlans == [hostname : Hostnames, ip : IpLists]

\* fmt.Sprintf("%s/%s", domain, hostname), with the plan's other fields
NameserverStateOf(hostname, ip) ==
    [id |-> <<DomainName, hostname>>, domain |-> DomainName, hostname |-> hostname,
     ip |-> ip]

\* whether the list holds an entry of that hostname
Listed(nss, h) == \E i \in 1..Len(nss) : nss[i].hostname = h
NsLookup(nss, h) == nss[CHOOSE i \in 1..Len(nss) : nss[i].hostname = h]

\* the "Nameserver Already Exists" diagnostic
AlreadyExistsError == MkErr("diag", 0, 0, {}, "none")

\* the remote API: POST replaces the whole list, PUT and DELETE act on one entry
SrvReplaceNameservers(nss, list) == list
SrvPutNameserver(nss, h, ns) ==
    [i \in 1..Len(nss) |-> IF nss[i].hostname = h THEN ns ELSE nss[i]]
SrvDeleteNameserver(nss, h) == SelectSeq(nss, LAMBDA n : n.hostname # h)

\* the list Create posts, were it to hold the new entry alone
NewAlone(currentNS, newNS) == <<newNS>>

\* nameservers := append(currentNS, newNS)
AppendNameserver(currentNS, newNS) == Append(currentNS, newNS)

\* (r *DomainNameserverResource) Create
DomainNameserverResourceCreate(plan, st, dom, nss, eList, ePost) ==
    LET get == ReqGetDomainNameservers(eList)
        currentNS == nss
        newNS == MkDomainNameserver(plan.hostname, plan.ip)
        posted == AppendNameserver(currentNS, newNS)
        post == ReqCreateDomainNameservers(posted, ePost)
    IN IF eList # NoErr THEN DOutcome(dom, nss, st, eList, <<get>>)
       ELSE IF Listed(currentNS, plan.hostname)
       THEN DOutcome(dom, nss, st, AlreadyExistsError, <<get>>)
       ELSE IF ePost # NoErr THEN DOutcome(dom, nss, st, ePost, <<get, post>>)
       ELSE DOutcome(dom, SrvReplaceNameservers(nss, posted),
                     NameserverStateOf(plan.hostname, plan.ip), NoErr, <<get, post>>)

\* NotFoundIsGone taking every failure of the read for an absence
AnyFailureIsGone(e) == e # NoErr

\* strings.Contains(err.Error(), "404") || strings.Contains(err.Error(), "not found")
NotFoundIsGone(e) == Contains(e, "404") \/ Contains(e, "not found")

\* (r *DomainNameserverResource) Read
DomainNameserverResourceRead(st, dom, nss, eGet) ==
    LET get == ReqGetDomainNameserver(st.hostname, eGet)
    IN IF eGet # NoErr
       THEN IF NotFoundIsGone(eGet)
            THEN DOutcome(dom, nss, NoNameserverState, NoErr, <<get>>)
            ELSE DOutcome(dom, nss, st, eGet, <<get>>)
       ELSE LET ns == NsLookup(nss, st.hostname)
            IN DOutcome(dom, nss, NameserverStateOf(ns.hostname, ns.ip), NoErr, <<get>>)

\* DomainNameserverResourceUpdate dropping the error of its call
DomainNameserverResourceUpdateBlind(plan, st, dom, nss, ePut) ==
    DOutcome(dom, nss, NameserverStateOf(plan.hostname, plan.ip), NoErr,
             <<ReqUpdateDomainNameserver(plan.hostname,
                                         MkDomainNameserver(plan.hostname, plan.ip), ePut)>>)

\* (r *DomainNameserverResource) Update
DomainNameserverResourceUpdate(plan, st, dom, nss, ePut) ==
    LET ns == MkDomainNameserver(plan.hostname, plan.ip)
        put == ReqUpdateDomainNameserver(plan.hostname, ns, ePut)
    IN IF ePut # NoErr THEN DOutcome(dom, nss, st, ePut, <<put>>)
       ELSE DOutcome(dom, SrvPutNameserver(nss, plan.hostname, ns),
                     NameserverStateOf(plan.hostname, plan.ip), NoErr, <<put>>)

\* (r *DomainNameserverResource) Delete
DomainNameserverResourceDelete(st, dom, nss, eDelete) ==
    LET del == ReqDeleteDomainNameserver(st.hostname, eDelete)
    IN IF eDelete # NoErr
       THEN IF ~Contains(eDelete, "404") /\ ~Contains(eDelete, "not found")
            THEN DOutcome(dom, nss, st, eDelete, <<del>>)
            ELSE DOutcome(dom, nss, NoNameserverState, NoErr, <<del>>)
       ELSE DOutcome(dom, SrvDeleteNameserver(nss, st.hostname), NoNameserverState,
                     NoErr, <<del>>)

(* the two resources as a state machine *)

DomainKinds == {"domain", "nameserver"}
\* an operation that takes no plan
NoDPlan == [none |-> TRUE]
NoDOp == [op |-> "none", plan |-> NoDPlan, err |-> NoErr, log |-> <<>>]

\* no domain operation has run
DIdle ==
    /\ domain = [autorenew |-> TRUE, dnssec |-> TRUE, nameservers_custom |-> TRUE,
                 renewal_notifications |-> TRUE]
    /\ nameservers = <<>>
    /\ dstate = NoDomainState
    /\ nsstate = NoNameserverState
    /\ dlast = NoDOp

DInit ==
    /\ kind \in DomainKinds
    /\ remote = <<>>
    /\ nextId = 1
    /\ tfstate = NoState
    /\ last = NoOp
    /\ domain \in DomainSettings
    /\ nameservers = <<>>
    /\ dstate = NoDomainState
    /\ nsstate = NoNameserverState
    /\ dlast = NoDOp

\* a handler of the domain resource has run with outcome R
DApply(op, plan, R) ==
    /\ dlast' = [op |-> op, plan |-> plan, err |-> R.err, log |-> R.log]
    /\ domain' = R.domain
    /\ nameservers' = R.nameservers
    /\ dstate' = R.state
    /\ UNCHANGED nsstate

\* a handler of the nameserver resource has run with outcome R
NApply(op, plan, R) ==
    /\ dlast' = [op |-> op, plan |-> plan, err |-> R.err, log |-> R.log]
    /\ domain' = R.domain
    /\ nameservers' = R.nameservers
    /\ nsstate' = R.state
    /\ UNCHANGED dstate

DomCreate ==
    /\ kind = "domain"
    /\ dstate = NoDomainState
    /\ \E plan \in DomainSettings :
       \E eGet \in {NoErr, E404, E500} :
       \E ePut \in Only(eGet = NoErr, DomainErrs) :
       \E ePrefs \in Only(eGet = NoErr /\ ePut = NoErr, DomainErrs) :
          DApply("Create", plan, DomainResourceCreate(plan, dstate, domain, nameservers, eGet,
                                                ePut, ePrefs))

DomRead ==
    /\ kind = "domain"
    /\ dstate # NoDomainState
    /\ \E eGet \in {NoErr, E404, EmptyArrayError, E500} :
       \E eGetPrefs \in Only(eGet = NoErr, DomainErrs) :
          DApply("Read", NoDPlan, DomainResourceRead(dstate, domain, nameservers, eGet, eGetPrefs))

DomUpdate ==
    /\ kind = "domain"
    /\ dstate # NoDomainState
    /\ \E plan \in DomainSettings :
       \E ePut \in DomainErrs :
       \E ePrefs \in Only(ePut = NoErr, DomainErrs) :
          DApply("Update", plan, DomainResourceUpdate(plan, dstate, domain, nameservers, ePut,
                                                ePrefs))

DomDelete ==
    /\ kind = "domain"
    /\ dstate # NoDomainState
    /\ \E ePut \in DomainErrs :
          DApply("Delete", NoDPlan, DomainResourceDelete(dstate, domain, nameservers, ePut))

\* the client's UpdateDomainPreferences used on its own
PreferencesCall ==
    /\ kind = "domain"
    /\ \E renewalNotifications \in BOOLEAN, ePrefs \in DomainErrs :
          DApply("UpdateDomainPreferences", NoDPlan,
                 UpdateDomainPreferences(renewalNotifications, dstate, domain,
                                         nameservers, ePrefs))

\* somebody else changes a setting of the domain
ExternalDomainEdit ==
    /\ kind = "domain"
    /\ \E f \in DOMAIN domain : domain' = [domain EXCEPT ![f] = ~@]
    /\ dlast' = NoDOp
    /\ UNCHANGED <<nameservers, dstate, nsstate>>

NsCreate ==
    /\ kind = "nameserver"
    /\ nsstate = NoNameserverState
    /\ \E plan \in NameserverPlans :
       \E eList \in DomainErrs :
       \E ePost \in Only(eList = NoErr /\ ~Listed(nameservers, plan.hostname), DomainErrs) :
          NApply("Create", plan, DomainNameserverResourceCreate(plan, nsstate, domain,
                                                          nameservers, eList, ePost))

NsRead ==
    /\ kind = "nameserver"
    /\ nsstate # NoNameserverState
    /\ \E eGet \in NsItemErrs(nameservers, nsstate.hostname) :
          NApply("Read", NoDPlan, DomainNameserverResourceRead(nsstate, domain, nameservers, eGet))

NsUpdate ==
    /\ kind = "nameserver"
    /\ nsstate # NoNameserverState
    /\ \E ip \in IpLists :
       \E ePut \in NsItemErrs(nameservers, nsstate.hostname) :
          NApply("Update", [hostname |-> nsstate.hostname, ip |-> ip],
                 DomainNameserverResourceUpdate([hostname |-> nsstate.hostname, ip |-> ip],
                                                nsstate, domain, nameservers, ePut))

NsDelete ==
    /\ kind = "nameserver"
    /\ nsstate # NoNameserverState
    /\ \E eDelete \in NsItemErrs(nameservers, nsstate.hostname) :
          NApply("Delete", NoDPlan, DomainNameserverResourceDelete(nsstate, domain, nameservers,
                                                          eDelete))

\* somebody else adds a nameserver to the domain
ExternalNsAdd ==
    /\ kind = "nameserver"
    /\ \E h \in Hostnames :
         /\ ~Listed(nameservers, h)
         /\ nameservers' = Append(nameservers, MkDomainNameserver(h, ForeignIp))
    /\ dlast' = NoDOp
    /\ UNCHANGED <<domain, dstate, nsstate>>

\* somebody else removes a nameserver of the domain
ExternalNsRemove ==
    /\ kind = "nameserver"
    /\ \E h \in Hostnames :
         /\ Listed(nameservers, h)
         /\ nameservers' = SrvDeleteNameserver(nameservers, h)
    /\ dlast' = NoDOp
    /\ UNCHANGED <<domain, dstate, nsstate>>

----------------------------------------------------------------------------
(* Nameserver Creates of several resources of one domain, run by Terraform *)
(* at the same time on the one client.  The handler is                     *)
(* DomainNameserverResourceCreate, taken one client call at a time: other  *)
(* handlers' calls may come between its GetDomainNameservers and its       *)
(* CreateDomainNameservers.                                                *)

\* a nameserver that is none of the configuration's
ForeignHostname == "ns0"

NotCreating == [pc |-> "idle", currentNS |-> <<>>, ip |-> <<>>, err |-> NoErr]
CreateDone(e) == [pc |-> "done", currentNS |-> <<>>, ip |-> <<>>, err |-> e]

\* no nameserver Create is under way
NIdle == creates = [h \in Hostnames |-> NotCreating]

\* the nameserver lists the domain may have to begin with
StartingNameservers ==
    {<<>>} \cup {<<MkDomainNameserver(h, ForeignIp)>> : h \in Hostnames \cup {ForeignHostname}}

\* Create up to the duplicate check: GetDomainNameservers, then the loop
\* over currentNS
NsCreateList(h) ==
    /\ creates[h].pc = "idle"
    /\ \E ip \in IpLists, eList \in DomainErrs :
         creates' = [creates EXCEPT ![h] =
                       IF eList # NoErr THEN CreateDone(eList)
                       ELSE IF Listed(nameservers, h) THEN CreateDone(AlreadyExistsError)
                       ELSE [pc |-> "listed", currentNS |-> nameservers, ip |-> ip,
                             err |-> NoErr]]
    /\ UNCHANGED nameservers

\* Create from the append on: CreateDomainNameservers with currentNS and
\* the new entry, which replaces the domain's list
NsCreatePost(h) ==
    /\ creates[h].pc = "listed"
    /\ \E ePost \in DomainErrs :
         LET newNS == MkDomainNameserver(h, creates[h].ip)
             posted == AppendNameserver(creates[h].currentNS, newNS)
         IN /\ creates' = [creates EXCEPT ![h] = CreateDone(ePost)]
            /\ nameservers' = IF ePost # NoErr THEN nameservers
                               ELSE SrvReplaceNameservers(nameservers, posted)

----------------------------------------------------------------------------
(* Single-object decoding: parseDNSRecordResponse and parseDNSZoneResponse *)
(* (client.go).  A body is malformed text, JSON of another shape, the JSON *)
(* null, or an array; an element of an array is an object known by its id  *)
(* (a record) or name (a zone), or a value of another type.                *)

Keys == {"123", "456"}
IllTyped == "0"
Elements == Keys \cup {IllTyped}
Bodies ==
    {[shape |-> sh, items |-> <<>>] : sh \in {"malformed", "object", "null"}}
    \cup {[shape |-> "array", items |-> it] :
             it \in UNION {[1..n -> Elements] : n \in 0..MaxBody}}

\* fmt.Errorf("error parsing response: %w", err)
DecodeError == MkErr("decode", 0, 0, {}, "unmarshal")
\* fmt.Errorf("empty response from API")
EmptyResponseError == MkErr("empty", 0, 0, {}, "none")

\* json.Unmarshal(resp, &slice): null leaves the slice nil; an array fills
\* it, and fails when an element is not an object; anything else fails
Unmarshal(b) ==
    IF b.shape = "null" THEN [err |-> NoErr, slice |-> <<>>]
    ELSE IF b.shape = "array" /\ \A i \in 1..Len(b.items) : b.items[i] # IllTyped
    THEN [err |-> NoErr, slice |-> b.items]
    ELSE [err |-> DecodeError, slice |-> <<>>]

NoValue == ""
NotDecoded == [fn |-> "none", err |-> NoErr, value |-> NoValue]

\* parseDNSRecordResponse without the test for an empty slice
parseDNSRecordResponseUnguarded(b) ==
    LET u == Unmarshal(b)
    IN IF u.err # NoErr THEN [err |-> u.err, value |-> NoValue]
       ELSE [err |-> NoErr, value |-> IF u.slice = <<>> THEN NoValue ELSE u.slice[1]]

\* parseDNSRecordResponse
parseDNSRecordResponse(b) ==
    LET records == Unmarshal(b)
    IN IF records.err # NoErr THEN [err |-> records.err, value |-> NoValue]
       ELSE IF Len(records.slice) = 0 THEN [err |-> EmptyResponseError, value |-> NoValue]
       ELSE [err |-> NoErr, value |-> records.slice[1]]

\* parseDNSZoneResponse
parseDNSZoneResponse(b) ==
    LET zones == Unmarshal(b)
    IN IF zones.err # NoErr THEN [err |-> zones.err, value |-> NoValue]
       ELSE IF Len(zones.slice) = 0 THEN [err |-> EmptyResponseError, value |-> NoValue]
       ELSE [err |-> NoErr, value |-> zones.slice[1]]

\* no body has been decoded
CIdle == respBody = [shape |-> "null", items |-> <<>>] /\ decoded = NotDecoded

DecodeInit == respBody \in Bodies /\ decoded = NotDecoded

DecodeRecord ==
    LET r == parseDNSRecordResponse(respBody)
    IN decoded' = [fn |-> "record", err |-> r.err, value |-> r.value] /\ UNCHANGED respBody

DecodeZone ==
    LET r == parseDNSZoneResponse(respBody)
    IN decoded' = [fn |-> "zone", err |-> r.err, value |-> r.value] /\ UNCHANGED respBody

----------------------------------------------------------------------------
(* Specifications *)

\* no resource operation under way: the state the transport is studied in
RIdle ==
    /\ kind = "cname"
    /\ remote = <<>>
    /\ nextId = 1
    /\ tfstate = NoState
    /\ last = NoOp

Init == TInit /\ RIdle /\ DIdle /\ CIdle /\ NIdle

Next ==
    \/ (\E c \in Callers : StartCall(c)) /\ Unheard /\ UNCHANGED <<rvars, dvars, cvars, nvars>>
    \/ (\E c \in Callers : Cancel(c)) /\ Unheard /\ UNCHANGED <<rvars, dvars, cvars, nvars>>
    \/ (\E c \in Callers : LoopTop(c)) /\ Unheard /\ UNCHANGED <<rvars, dvars, cvars, nvars>>
    \/ (\E c \in Callers : WaitLock(c)) /\ Unheard /\ UNCHANGED <<rvars, dvars, cvars, nvars>>
    \/ (\E c \in Callers : WaitCheck(c)) /\ Unheard /\ UNCHANGED <<rvars, dvars, cvars, nvars>>
    \/ (\E c \in Callers : WaitRelock(c)) /\ Unheard /\ UNCHANGED <<rvars, dvars, cvars, nvars>>
    \/ (\E c \in Callers : WaitExit(c)) /\ Unheard /\ UNCHANGED <<rvars, dvars, cvars, nvars>>
    \/ (\E c \in Callers : Send(c)) /\ Unheard /\ UNCHANGED <<rvars, dvars, cvars, nvars>>
    \/ (\E c \in Callers : DoFails(c)) /\ Unheard /\ UNCHANGED <<rvars, dvars, cvars, nvars>>
    \/ (\E c \in Callers : Receive(c)) /\ UNCHANGED <<rvars, dvars, cvars, nvars>>
    \/ (\E c \in Callers : MarkAndSleep(c)) /\ Unheard /\ UNCHANGED <<rvars, dvars, cvars, nvars>>
    \/ (\E c \in Callers : BackoffWake(c)) /\ Unheard /\ UNCHANGED <<rvars, dvars, cvars, nvars>>
    \/ Tick /\ Unheard /\ UNCHANGED <<rvars, dvars, cvars, nvars>>

Spec == Init /\ [][Next]_vars

RecInit == TInit /\ RInit /\ DIdle /\ CIdle /\ NIdle

RecNext ==
    \/ Create /\ UNCHANGED <<tvars, dvars, cvars, nvars>>
    \/ Update /\ UNCHANGED <<tvars, dvars, cvars, nvars>>
    \/ Read /\ UNCHANGED <<tvars, dvars, cvars, nvars>>
    \/ Delete /\ UNCHANGED <<tvars, dvars, cvars, nvars>>
    \/ ExternalCreate /\ UNCHANGED <<tvars, dvars, cvars, nvars>>
    \/ ExternalDelete /\ UNCHANGED <<tvars, dvars, cvars, nvars>>

RecSpec == RecInit /\ [][RecNext]_vars

\* the domain resource or the nameserver resource, and whoever else edits
\* the domain
DomInit == TInit /\ DInit /\ CIdle /\ NIdle

DomNext ==
    \/ DomCreate /\ UNCHANGED <<tvars, rvars, cvars, nvars>>
    \/ DomRead /\ UNCHANGED <<tvars, rvars, cvars, nvars>>
    \/ DomUpdate /\ UNCHANGED <<tvars, rvars, cvars, nvars>>
    \/ DomDelete /\ UNCHANGED <<tvars, rvars, cvars, nvars>>
    \/ PreferencesCall /\ UNCHANGED <<tvars, rvars, cvars, nvars>>
    \/ ExternalDomainEdit /\ UNCHANGED <<tvars, rvars, cvars, nvars>>
    \/ NsCreate /\ UNCHANGED <<tvars, rvars, cvars, nvars>>
    \/ NsRead /\ UNCHANGED <<tvars, rvars, cvars, nvars>>
    \/ NsUpdate /\ UNCHANGED <<tvars, rvars, cvars, nvars>>
    \/ NsDelete /\ UNCHANGED <<tvars, rvars, cvars, nvars>>
    \/ ExternalNsAdd /\ UNCHANGED <<tvars, rvars, cvars, nvars>>
    \/ ExternalNsRemove /\ UNCHANGED <<tvars, rvars, cvars, nvars>>

DomSpec == DomInit /\ [][DomNext]_vars

\* any one resource of the provider: a record of some kind, the domain, or a
\* nameserver of the domain
ResInit == TInit /\ ((RInit /\ DIdle) \/ DInit) /\ CIdle /\ NIdle

ResNext ==
    \/ kind \in Kinds /\ Create /\ UNCHANGED <<tvars, dvars, cvars, nvars>>
    \/ kind \in Kinds /\ Update /\ UNCHANGED <<tvars, dvars, cvars, nvars>>
    \/ kind \in Kinds /\ Read /\ UNCHANGED <<tvars, dvars, cvars, nvars>>
    \/ kind \in Kinds /\ Delete /\ UNCHANGED <<tvars, dvars, cvars, nvars>>
    \/ kind \in Kinds /\ ExternalCreate /\ UNCHANGED <<tvars, dvars, cvars, nvars>>
    \/ kind \in Kinds /\ ExternalDelete /\ UNCHANGED <<tvars, dvars, cvars, nvars>>
    \/ DomCreate /\ UNCHANGED <<tvars, rvars, cvars, nvars>>
    \/ DomRead /\ UNCHANGED <<tvars, rvars, cvars, nvars>>
    \/ DomUpdate /\ UNCHANGED <<tvars, rvars, cvars, nvars>>
    \/ DomDelete /\ UNCHANGED <<tvars, rvars, cvars, nvars>>
    \/ PreferencesCall /\ UNCHANGED <<tvars, rvars, cvars, nvars>>
    \/ ExternalDomainEdit /\ UNCHANGED <<tvars, rvars, cvars, nvars>>
    \/ NsCreate /\ UNCHANGED <<tvars, rvars, cvars, nvars>>
    \/ NsRead /\ UNCHANGED <<tvars, rvars, cvars, nvars>>
    \/ NsUpdate /\ UNCHANGED <<tvars, rvars, cvars, nvars>>
    \/ NsDelete /\ UNCHANGED <<tvars, rvars, cvars, nvars>>
    \/ ExternalNsAdd /\ UNCHANGED <<tvars, rvars, cvars, nvars>>
    \/ ExternalNsRemove /\ UNCHANGED <<tvars, rvars, cvars, nvars>>

ResSpec == ResInit /\ [][ResNext]_vars

----------------------------------------------------------------------------
(* The find functions on their own: any listing of the zone, looked up     *)
(* under a host's zone-relative name and under its fully-qualified name.   *)

\* the names records of the zone are stored under
ListedNames == {<<"a">>, Fq(<<"a">>), Fq(Fq(<<"a">>)), <<"b">>}
\* the hosts looked up: one plain, one whose own name ends in the zone name
Hosts == {<<"a">>, Fq(<<"a">>)}

Listings ==
    UNION {{[i \in 1..n |-> [id |-> i, name |-> f[i], destination |-> "d1"]] :
               f \in [1..n -> ListedNames]} : n \in 0..MaxListed}

FindInit ==
    /\ TInit
    /\ kind = "cname"
    /\ remote \in Listings
    /\ nextId = Len(remote) + 1
    /\ tfstate = NoState
    /\ last = NoOp
    /\ DIdle
    /\ CIdle /\ NIdle

\* the id of the record a find returned, as a list: empty for nil
Found(r) == IF r = NoRecord THEN <<>> ELSE <<r.id>>

\* host h looked up under both its forms
Probe ==
    /\ \E h \in Hosts :
         last' = [op |-> "Find", plan |-> [NoPlan EXCEPT !.name = h], err |-> NoErr,
                  log |-> <<ReqList(NoErr, Found(FindRecordByName(remote, zone, h))),
                            ReqList(NoErr, Found(FindRecordByName(remote, zone, Fq(h))))>>]
    /\ UNCHANGED <<kind, remote, nextId, tfstate>>

\* the ids of a list of records
IdsOf(records) == [i \in 1..Len(records) |-> records[i].id]

\* the errors a list call fails with: the API's, or a body that does not parse
FindListErrs == {NoErr, E500, ParseError}

\* one find-by-name call
FindByNameCall ==
    /\ \E h \in Hosts \cup {<<"b">>}, e \in FindListErrs :
         LET f == FindRecordByNameWithContext(e, remote, zone, h)
         IN last' = [op |-> "FindByName", plan |-> [NoPlan EXCEPT !.name = h],
                     err |-> f.err, log |-> <<ReqList(e, IdsOf(f.found))>>]
    /\ UNCHANGED <<kind, remote, nextId, tfstate>>

\* one find-all-by-name call
FindAllByNameCall ==
    /\ \E h \in Hosts \cup {<<"b">>}, e \in FindListErrs :
         LET f == FindAllRecordsByNameWithContext(e, remote, zone, h)
         IN last' = [op |-> "FindAllByName", plan |-> [NoPlan EXCEPT !.name = h],
                     err |-> f.err, log |-> <<ReqList(e, IdsOf(f.found))>>]
    /\ UNCHANGED <<kind, remote, nextId, tfstate>>

FindNext ==
    \/ Probe /\ UNCHANGED <<tvars, dvars, cvars, nvars>>
    \/ FindByNameCall /\ UNCHANGED <<tvars, dvars, cvars, nvars>>
    \/ FindAllByNameCall /\ UNCHANGED <<tvars, dvars, cvars, nvars>>

FindSpec == FindInit /\ [][FindNext]_vars

\* a response body decoded as a record and as a zone
DecodeSpecInit == TInit /\ RIdle /\ DIdle /\ DecodeInit /\ NIdle

DecodeNext ==
    \/ DecodeRecord /\ UNCHANGED <<tvars, rvars, dvars, nvars>>
    \/ DecodeZone /\ UNCHANGED <<tvars, rvars, dvars, nvars>>

DecodeSpec == DecodeSpecInit /\ [][DecodeNext]_vars

\* the nameserver resources of one domain created at the same time
CreatesInit ==
    /\ TInit /\ RIdle /\ CIdle /\ NIdle
    /\ domain \in DomainSettings
    /\ nameservers \in StartingNameservers
    /\ dstate = NoDomainState
    /\ nsstate = NoNameserverState
    /\ dlast = NoDOp

CreatesNext ==
    \/ (\E h \in Hostnames : NsCreateList(h))
         /\ UNCHANGED <<tvars, rvars, cvars, domain, dstate, nsstate, dlast>>
    \/ (\E h \in Hostnames : NsCreatePost(h))
         /\ UNCHANGED <<tvars, rvars, cvars, domain, dstate, nsstate, dlast>>

CreatesSpec == CreatesInit /\ [][CreatesNext]_vars

----------------------------------------------------------------------------
(* Properties of the transport core *)

\* the delay a response's Retry-After header asks for, in seconds
AskedDelay(h) == IF h.numeric THEN h.val ELSE 60

\* an attempt came back as a failure that is not a 429
FailedOther(c) ==
    \/ lastResp[c].got = "failure"
    \/ /\ lastResp[c].got = "response"
       /\ lastResp[c].status # 429
       /\ (lastResp[c].status < 200 \/ lastResp[c].status >= 300)

\* C1: one logical API call issues at most 3 HTTP attempts, and a call whose
\* 3 attempts all came back 429 has returned (once it has returned) the
\* "max retries exceeded" error wrapping the last rate-limit error.
C1_AtMostThreeAttempts ==
    \A c \in Callers :
        /\ sends[c] <= 3
        /\ (pc[c] = "done" /\ sends[c] = 3 /\ lastResp[c].status = 429) =>
              /\ result[c].type = "error"
              /\ result[c].err.class = "max_retries"
              /\ result[c].err.wraps = "ratelimit"
              /\ result[c].err.retryAfter = AskedDelay(lastResp[c].retryAfter)

C1_Witness ==
    \E c \in Callers :
        /\ pc[c] = "done"
        /\ sends[c] = 3
        /\ lastResp[c].status = 429
        /\ result[c].err.class = "max_retries"

\* C2: an attempt that follows a 429 of the same call is in flight only after
\* the delay the 429 asked for has elapsed: the Retry-After seconds, or 60
\* when the header is absent or not an integer.
C2_RetryAfterRespected ==
    \A c \in Callers :
        (pc[c] = "inflight" /\ lastResp[c].status = 429) =>
            waited[c] >= AskedDelay(lastResp[c].retryAfter)

C2_Witness ==
    \E c \in Callers :
        /\ pc[c] = "inflight"
        /\ lastResp[c].status = 429
        /\ ~lastResp[c].retryAfter.numeric
        /\ waited[c] = 60

\* C3: once an attempt has failed with anything but a 429, the call has
\* returned that very error: no attempt follows and no backoff sleep is made.
C3_OtherErrorsReturnAtOnce ==
    \A c \in Callers :
        FailedOther(c) =>
            /\ pc[c] = "done"
            /\ result[c].type = "error"
            /\ IF lastResp[c].got = "failure"
               THEN /\ result[c].err.class = "transport"
                    /\ result[c].err.wraps = lastResp[c].cause
               ELSE /\ result[c].err.class = "api"
                    /\ result[c].err.status = lastResp[c].status

C3_Witness ==
    \E c \in Callers :
        /\ lastResp[c].got = "response"
        /\ lastResp[c].status = 500
        /\ sends[c] = 2
        /\ pc[c] = "done"
        /\ result[c].err.class = "api"

----------------------------------------------------------------------------
(* Properties of the record handlers.  A step with last'.op = "Create" is  *)
(* a run of the Create handler from the unprimed state; last'.log is the   *)
(* list of API calls it made.                                              *)

\* the positions of the calls of method m in a log
Calls(log, m) == {i \in 1..Len(log) : log[i].m = m}

\* the log ends in a create call refused with zone_conflict and a lookup
ConflictThenFind(log) ==
    /\ Len(log) >= 2
    /\ log[Len(log) - 1].m = "POST"
    /\ "zone_conflict" \in log[Len(log) - 1].err.marks
    /\ log[Len(log)].m = "LIST"

\* C4: when the create call of a Create is refused with zone_conflict and
\* the lookup by name that follows returns a record, the Create succeeds,
\* the state holds that record's id, and no second create call was made.
C4_ConflictAdopts ==
    [][(/\ last'.op = "Create"
        /\ ConflictThenFind(last'.log)
        /\ last'.log[Len(last'.log)].err = NoErr
        /\ last'.log[Len(last'.log)].ret # <<>>)
       => /\ last'.err = NoErr
          /\ tfstate'.record_id = FindRecordByName(remote, zone, last'.plan.name).id
          /\ tfstate'.record_id \in Ids(remote)
          /\ tfstate'.id = FormatID(zone, tfstate'.record_id)
          /\ Cardinality(Calls(last'.log, "POST")) = 1
          /\ remote' = remote]_vars

C4_Witness ==
    /\ last.op = "Create"
    /\ ConflictThenFind(last.log)
    /\ last.log[Len(last.log)].ret # <<>>
    /\ last.err = NoErr
    /\ tfstate.record_id = last.log[Len(last.log)].ret[1]

\* C5: when the create call of a Create is refused with zone_conflict and
\* the lookup by name that follows fails or finds nothing, the Create
\* reports the error of the create call and writes nothing to the state.
C5_ConflictWithoutMatchFails ==
    [][(/\ last'.op = "Create"
        /\ ConflictThenFind(last'.log)
        /\ \/ last'.log[Len(last'.log)].err # NoErr
           \/ last'.log[Len(last'.log)].ret = <<>>)
       => /\ last'.err = last'.log[Len(last'.log) - 1].err
          /\ tfstate' = NoState
          /\ remote' = remote]_vars

\* the lookup failed although a matching record exists
C5_Witness ==
    /\ last.op = "Create"
    /\ ConflictThenFind(last.log)
    /\ last.log[Len(last.log)].err # NoErr
    /\ FindRecordByName(remote, zone, last.plan.name) # NoRecord
    /\ "zone_conflict" \in last.err.marks
    /\ tfstate = NoState

\* the log starts with an update refused with zone_conflict, then a
\* find-all that returned at least two records
EscalatedOverDuplicates(log) ==
    /\ Len(log) >= 2
    /\ log[1].m = "PUT"
    /\ "zone_conflict" \in log[1].err.marks
    /\ log[2].m = "LIST"
    /\ log[2].err = NoErr
    /\ Len(log[2].ret) >= 2

\* C6: when an Update with force_recreate is refused with zone_conflict and
\* the find-all returns N >= 2 records, the handler issues a delete for each
\* of the N, then exactly one create call, which is the last call; the id
\* that create returns replaces the id in the state.
C6_EscalationDeletesAllThenCreates ==
    [][(/\ last'.op = "Update"
        /\ last'.plan.force_recreate
        /\ EscalatedOverDuplicates(last'.log))
       => LET log == last'.log
              N == Len(log[2].ret)
          IN /\ log[2].ret = IdSeq(FindAllRecordsByName(remote, zone, last'.plan.name))
             /\ Len(log) = N + 3
             /\ \A i \in 1..N : log[2 + i].m = "DELETE" /\ log[2 + i].id = log[2].ret[i]
             /\ \A i \in 1..N : log[2 + i].err = NoErr => log[2].ret[i] \notin Ids(remote')
             /\ Calls(log, "POST") = {N + 3}
             /\ log[N + 3].name = last'.plan.name
             /\ log[N + 3].destination = last'.plan.destination
             /\ last'.err = log[N + 3].err
             /\ log[N + 3].err = NoErr =>
                   /\ tfstate'.record_id = log[N + 3].ret[1]
                   /\ tfstate'.id = FormatID(zone, log[N + 3].ret[1])
                   /\ tfstate'.record_id # tfstate.record_id
                   /\ tfstate'.record_id \notin Ids(remote)
                   /\ tfstate'.record_id \in Ids(remote')
             /\ log[N + 3].err # NoErr => tfstate' = tfstate]_vars

C6_Witness ==
    /\ last.op = "Update"
    /\ last.plan.force_recreate
    /\ EscalatedOverDuplicates(last.log)
    /\ Cardinality(Calls(last.log, "DELETE")) = 2
    /\ last.err = NoErr
    /\ tfstate.record_id = last.log[Len(last.log)].ret[1]
    /\ Ids(remote) = {tfstate.record_id}

C8_DeleteNotFoundSucceeds ==
    [][(/\ last'.op = "Delete"
        /\ last'.log[1].err.status = 404)
       => /\ last'.err = NoErr
          /\ tfstate' = NoState]_vars

\* C9 as stated: for every host, looked up in a listing whose records are
\* stored under the host's zone-relative or fully-qualified name, the lookup
\* under the one form and the lookup under the other return the same record.
C9_BothFormsFindTheSame ==
    (/\ last.op = "Find"
     /\ \A i \in 1..Len(remote) :
           remote[i].name \in {last.plan.name, Fq(last.plan.name)})
    => last.log[1].ret = last.log[2].ret

\* C9, amended: for every host whose zone-relative name does not itself end
\* in "." + zone, the lookup under the zone-relative name and the lookup
\* under the fully-qualified name return the same record, whether the
\* record is stored under the one form or the other.
C9_BothFormsFindTheSameUnlessNested ==
    (last.op = "Find" /\ ~HasSuffix(last.plan.name, Dot \o zone)) =>
        /\ last.log[1].ret = last.log[2].ret
        /\ (\E i \in 1..Len(remote) :
               remote[i].name \in {last.plan.name, Fq(last.plan.name)})
           => last.log[1].ret # <<>>

\* the only record of the host is stored fully qualified, behind another's
C9_Witness ==
    /\ last.op = "Find"
    /\ last.plan.name = <<"a">>
    /\ Len(remote) = 2
    /\ remote[1].name = <<"b">>
    /\ remote[2].name = Fq(<<"a">>)
    /\ last.log[1].ret = <<2>>
    /\ last.log[2].ret = <<2>>

\* C10: a call whose context is cancelled while it sleeps (rate-limit wait or
\* 429 backoff) stops sleeping at once: no time passes asleep after the
\* cancellation.
C10_CancelEndsSleep ==
    [][\A c \in Callers :
         (Sleeping(c) /\ ctxDone[c] /\ sleepLeft[c] > 0) =>
             sleepLeft'[c] = sleepLeft[c]]_vars

----------------------------------------------------------------------------
(* C11: a call whose context is cancelled when an iteration of the retry   *)
(* loop starts (the first one included) returns the context's error, and   *)
(* the HTTP attempt of that iteration is not issued: the count of attempts *)
(* sent stays as it was.                                                   *)
C11_CancelledIterationReturns ==
    [][\A c \in Callers :
         (pc[c] = "loop" /\ attempt[c] < maxRetries /\ ctxDone[c] /\ pc'[c] # "loop") =>
             /\ pc'[c] = "done"
             /\ result'[c] = Returned("error", CtxErr)
             /\ sends'[c] = sends[c]]_vars

\* one call returned the context's error before any attempt, another after a
\* first attempt that was answered 429
C11_Witness ==
    \E c, d \in Callers :
        /\ pc[c] = "done" /\ result[c] = Returned("error", CtxErr) /\ sends[c] = 0
        /\ pc[d] = "done" /\ result[d] = Returned("error", CtxErr) /\ sends[d] >= 1
        /\ lastResp[d].status = 429

----------------------------------------------------------------------------
(* C12: the mutex is never held by a caller that is sleeping (in the       *)
(* rate-limit wait or in the backoff) or whose request is in flight, and   *)
(* a caller that is outside the client holds nothing: whoever holds the    *)
(* mutex is inside waitForRateLimit, between a Lock and its Unlock.        *)
C12_NoLockWhileBlocked ==
    /\ mu \in {0} \cup Callers
    /\ \A c \in Callers :
         /\ (Sleeping(c) \/ pc[c] = "inflight") => mu # c
         /\ pc[c] \in {"idle", "done"} => mu # c
         /\ mu = c => pc[c] \in {"wait_locked", "wait_exit"}

\* a caller is in its backoff sleep while another caller, inside
\* waitForRateLimit, holds the mutex
C12_Witness ==
    \E c, d \in Callers :
        /\ pc[c] = "backoff" /\ sleepLeft[c] > 0
        /\ d # c /\ mu = d /\ pc[d] = "wait_locked"

----------------------------------------------------------------------------
(* C13: a new client starts with limit = remaining = 60, and every         *)
(* response, whatever its status, sets the limit from X-Ratelimit-Limit    *)
(* and the remaining count from X-Ratelimit-Remaining when the header is   *)
(* there and is an integer, and leaves the value as it was otherwise.      *)
FromHeader(old, a) == IF a.numeric THEN a.val ELSE old

C13_HeadersSetLimits ==
    /\ rateLimitLimit = 60 /\ rateLimitRemaining = 60
    /\ [][\A c \in Callers :
            (pc[c] = "inflight" /\ pc'[c] # "inflight" /\ lastResp'[c].got = "response") =>
                /\ heard'.seen
                /\ rateLimitLimit' = FromHeader(rateLimitLimit, heard'.limit)
                /\ rateLimitRemaining' = FromHeader(rateLimitRemaining, heard'.remaining)]_vars

\* a 500 answer with a numeric limit header and a remaining header that is no
\* integer: the limit is the header's, the remaining count is still the initial one
C13_Witness ==
    /\ heard.seen
    /\ heard.limit = Atoi(Num(30)) /\ rateLimitLimit = 30
    /\ ~heard.remaining.numeric /\ rateLimitRemaining = 60
    /\ \E c \in Callers : lastResp[c].got = "response" /\ lastResp[c].status = 500

----------------------------------------------------------------------------
(* C14: over the record, domain and nameserver operations, a remote call   *)
(* that failed is swallowed (the operation reports no error) only when it  *)
(* is the create call of a Create that met a conflict and adopted the      *)
(* existing record, the delete call of a Delete that found the object      *)
(* gone, or the field reset of the domain Delete.                          *)
FailedCalls(log) == {i \in 1..Len(log) : log[i].err # NoErr}
GoneError(e) == Contains(e, "404") \/ Contains(e, "not found")

\* the failed call i of a record Create is the conflict that led to an adoption
AdoptionSwallow(o, st, i) ==
    /\ o.op = "Create" /\ o.log[i].m = "POST" /\ Contains(o.log[i].err, "zone_conflict")
    /\ i < Len(o.log) /\ o.log[i + 1].m = "LIST" /\ o.log[i + 1].err = NoErr
    /\ st # NoState /\ \E k \in 1..Len(o.log[i + 1].ret) : o.log[i + 1].ret[k] = st.record_id
\* the failed call i of a Delete found the object gone
AbsentDeleteSwallow(o, i) ==
    o.op = "Delete" /\ o.log[i].m = "DELETE" /\ GoneError(o.log[i].err)
\* the failed call i is the reset of the domain Delete
ResetSwallow(o, i) ==
    o.op = "Delete" /\ o.log[i].m = "PUT" /\ o.log[i].path = "domain"
\* the failed call i of a Read found the object gone
AbsentReadSwallow(o, i) ==
    o.op = "Read" /\ o.log[i].m = "GET" /\ GoneError(o.log[i].err)
\* the failed call i belongs to an Update that met a conflict and recreated
\* the record: the conflicting update itself, or the deletion of a duplicate
EscalationSwallow(o, i) ==
    /\ o.op = "Update" /\ o.plan.force_recreate
    /\ o.log[1].m = "PUT" /\ Contains(o.log[1].err, "zone_conflict")
    /\ o.log[Len(o.log)].m = "POST" /\ o.log[Len(o.log)].err = NoErr
    /\ i = 1 \/ o.log[i].m = "DELETE"

C14_OnlyThreeSwallowed ==
    [][/\ last'.err = NoErr =>
            \A i \in FailedCalls(last'.log) :
                AdoptionSwallow(last', tfstate', i) \/ AbsentDeleteSwallow(last', i)
       /\ dlast'.err = NoErr =>
            \A i \in FailedCalls(dlast'.log) :
                AbsentDeleteSwallow(dlast', i) \/ ResetSwallow(dlast', i)]_vars

\* C14 as amended: a Read that found the object gone, and an Update that
\* met a conflict and recreated the record, swallow failed calls as well
C14_OnlyFiveSwallowed ==
    [][/\ last'.err = NoErr =>
            \A i \in FailedCalls(last'.log) :
                \/ AdoptionSwallow(last', tfstate', i)
                \/ AbsentDeleteSwallow(last', i)
                \/ AbsentReadSwallow(last', i)
                \/ EscalationSwallow(last', i)
       /\ dlast'.err = NoErr =>
            \A i \in FailedCalls(dlast'.log) :
                \/ AbsentDeleteSwallow(dlast', i)
                \/ ResetSwallow(dlast', i)
                \/ AbsentReadSwallow(dlast', i)]_vars

\* an Update met a conflict, failed to delete one of the duplicates, created
\* the record anew and reported no error
C14_Witness ==
    /\ last.op = "Update" /\ last.err = NoErr
    /\ \E i \in FailedCalls(last.log) :
         last.log[i].m = "DELETE" /\ ~GoneError(last.log[i].err)
    /\ EscalationSwallow(last, 1)

----------------------------------------------------------------------------
(* C15: the nameserver Create reads the current list first.  When the      *)
(* hostname is already in it, Create fails and posts nothing, and nothing  *)
(* is taken into state; otherwise it posts the list it read with the new   *)
(* entry appended, so that the entries that were there are still there.    *)
C15_CreateAppendsOrRefuses ==
    [][(kind = "nameserver" /\ dlast'.op = "Create") =>
         LET log == dlast'.log
             new == MkDomainNameserver(dlast'.plan.hostname, dlast'.plan.ip)
         IN /\ Len(log) >= 1
            /\ log[1].m = "GET" /\ log[1].path = "nameserver" /\ log[1].host = ""
            /\ (log[1].err = NoErr /\ Listed(nameservers, new.hostname)) =>
                   /\ dlast'.err # NoErr
                   /\ Len(log) = 1
                   /\ nameservers' = nameservers
                   /\ nsstate' = NoNameserverState
            /\ (log[1].err = NoErr /\ ~Listed(nameservers, new.hostname)) =>
                   /\ Len(log) = 2
                   /\ log[2].m = "POST" /\ log[2].path = "nameserver"
                   /\ log[2].list = nameservers \o <<new>>
                   /\ log[2].err = NoErr =>
                          /\ dlast'.err = NoErr
                          /\ \A i \in 1..Len(nameservers) : nameservers'[i] = nameservers[i]
                          /\ nameservers'[Len(nameservers) + 1] = new]_vars

\* a nameserver was created next to one that somebody else had set up, and
\* both are in the list
C15_Witness ==
    /\ kind = "nameserver" /\ dlast.op = "Create" /\ dlast.err = NoErr
    /\ Len(nameservers) = 2
    /\ nameservers[1].ip = ForeignIp
    /\ nameservers[2] = MkDomainNameserver(dlast.plan.hostname, dlast.plan.ip)
    /\ nsstate.hostname = dlast.plan.hostname

----------------------------------------------------------------------------
(* C16: the domain Delete reports no error and sends no delete; it sends   *)
(* one update whose body holds autorenew = false and dnssec = false and    *)
(* nothing else, so nameservers_custom and renewal_notifications stay as   *)
(* they were; whether or not that update fails, the domain leaves state.   *)
C16_DeleteResetsAndForgets ==
    [][(kind = "domain" /\ dlast'.op = "Delete") =>
         LET log == dlast'.log
         IN /\ dlast'.err = NoErr
            /\ dstate' = NoDomainState
            /\ Len(log) = 1
            /\ log[1].m = "PUT" /\ log[1].path = "domain"
            /\ DOMAIN log[1].body = {"autorenew", "dnssec"}
            /\ log[1].body["autorenew"] = FALSE /\ log[1].body["dnssec"] = FALSE
            /\ domain'.nameservers_custom = domain.nameservers_custom
            /\ domain'.renewal_notifications = domain.renewal_notifications
            /\ IF log[1].err = NoErr
               THEN domain'.autorenew = FALSE /\ domain'.dnssec = FALSE
               ELSE domain' = domain]_vars

\* the reset of a Delete failed on a domain with every setting on: the
\* settings are all still on, and the domain has left state without an error
C16_Witness ==
    /\ kind = "domain" /\ dlast.op = "Delete" /\ dlast.err = NoErr
    /\ dlast.log[1].err # NoErr
    /\ dstate = NoDomainState
    /\ domain.autorenew /\ domain.dnssec /\ domain.nameservers_custom
    /\ domain.renewal_notifications

----------------------------------------------------------------------------
(* C17: UpdateDomainPreferences sends one request, a PUT to the            *)
(* preferences endpoint whose body holds renewal_notifications alone, and  *)
(* the domain's autorenew and dnssec are after it what they were before.   *)
C17_PreferencesLeaveSettings ==
    [][(kind = "domain" /\ dlast'.op = "UpdateDomainPreferences") =>
         LET log == dlast'.log
         IN /\ Len(log) = 1
            /\ log[1].m = "PUT" /\ log[1].path = "preferences"
            /\ DOMAIN log[1].body = {"renewal_notifications"}
            /\ domain'.autorenew = domain.autorenew
            /\ domain'.dnssec = domain.dnssec
            /\ domain'.nameservers_custom = domain.nameservers_custom
            /\ log[1].err = NoErr =>
                   domain'.renewal_notifications = log[1].body["renewal_notifications"]]_vars

\* renewal notifications were switched off on a domain whose autorenew and
\* dnssec are on
C17_Witness ==
    /\ kind = "domain" /\ dlast.op = "UpdateDomainPreferences" /\ dlast.err = NoErr
    /\ dlast.log[1].body["renewal_notifications"] = FALSE
    /\ ~domain.renewal_notifications
    /\ domain.autorenew /\ domain.dnssec

----------------------------------------------------------------------------
(* C18: in the Create of every record kind, a create call refused with     *)
(* zone_conflict is followed by a lookup by name, and when the lookup      *)
(* returns a record the Create succeeds with that record's id in state.    *)
C18_EveryKindAdopts ==
    [][\A i \in 1..Len(last'.log) :
         (/\ last'.op = "Create"
          /\ last'.log[i].m = "POST"
          /\ Contains(last'.log[i].err, "zone_conflict"))
         => /\ i < Len(last'.log)
            /\ last'.log[i + 1].m = "LIST"
            /\ (/\ last'.log[i + 1].err = NoErr
                /\ FindRecordByName(remote, zone, last'.plan.name) # NoRecord)
               => /\ last'.err = NoErr
                  /\ tfstate'.record_id =
                         FindRecordByName(remote, zone, last'.plan.name).id]_vars

----------------------------------------------------------------------------
(* C19: a Read of a record or of a nameserver whose call is answered with  *)
(* a 404 / not found error removes the resource from state and reports no  *)
(* error; a Read that fails in any other way reports an error and leaves   *)
(* the state as it was.                                                    *)
ReadRule(o, before, after, none) ==
    o.op = "Read" =>
        /\ \A i \in FailedCalls(o.log) :
              IF GoneError(o.log[i].err)
              THEN after = none /\ o.err = NoErr
              ELSE after = before /\ o.err # NoErr
        /\ o.err # NoErr => after = before

C19_ReadDropsTheAbsent ==
    [][/\ kind \in Kinds => ReadRule(last', tfstate, tfstate', NoState)
       /\ kind = "nameserver" =>
              ReadRule(dlast', nsstate, nsstate', NoNameserverState)]_vars

\* a nameserver that somebody else removed has left state on Read, without
\* an error
C19_Witness ==
    /\ kind = "nameserver" /\ dlast.op = "Read" /\ dlast.err = NoErr
    /\ Len(dlast.log) = 1 /\ GoneError(dlast.log[1].err)
    /\ nsstate = NoNameserverState
    /\ nameservers = <<>>

----------------------------------------------------------------------------
(* C20: a record Create that succeeds leaves in state the id 'z/<record    *)
(* id>', which is not empty, and a Read that follows it with nothing       *)
(* changed in between returns the destination the Create was given.        *)
CreatedId ==
    (last'.op = "Create" /\ last'.err = NoErr) =>
        /\ tfstate'.id # <<>>
        /\ tfstate'.id = <<zone, tfstate'.record_id>>
        /\ tfstate'.record_id \in Ids(remote')
\* a Read whose call the API answered follows a Create that succeeded
ReadAfterCreate ==
    /\ last.op = "Create" /\ last.err = NoErr
    /\ last'.op = "Read" /\ last'.err = NoErr /\ FailedCalls(last'.log) = {}

C20_CreateThenRead ==
    [][/\ CreatedId
       /\ ReadAfterCreate =>
             /\ tfstate'.id = tfstate.id
             /\ tfstate'.destination = last.plan.destination]_vars

\* C20 as amended: for a Create that succeeded without a refused create
\* call, that is, otherwise than by adopting the record that was there
C20_CreateThenReadUnlessAdopted ==
    [][/\ CreatedId
       /\ (ReadAfterCreate /\ FailedCalls(last.log) = {}) =>
             /\ tfstate'.id = tfstate.id
             /\ tfstate'.destination = last.plan.destination]_vars

\* a Read has returned the destination of the plan for a record that is at
\* the remote API under the id in state
C20_Witness ==
    /\ last.op = "Read" /\ last.err = NoErr
    /\ tfstate.id = <<zone, tfstate.record_id>>
    /\ tfstate.destination \in Destinations
    /\ Lookup(remote, tfstate.record_id).destination = tfstate.destination

----------------------------------------------------------------------------
----------------------------------------------------------------------------
\* the positions of the listed records that the claim's condition selects
\* for search name s: equal after stripping "." + zone from both, or equal
Selected(s) ==
    {i \in 1..Len(remote) :
        \/ TrimSuffix(remote[i].name, Dot \o zone) = TrimSuffix(s, Dot \o zone)
        \/ remote[i].name = s}

\* C22: find-all-by-name returns exactly the listed records whose name
\* equals the search name after "." + zone is stripped from both, or equals
\* it as written, in the order of the listing; find-by-name returns the
\* first of them, or nothing and no error when there is none; both return
\* the error of a failed list call as it is, with no result.
C22_FindReturnsTheMatches ==
    LET ret == last.log[1].ret
        sel == Selected(last.plan.name)
    IN /\ last.op \in {"FindByName", "FindAllByName"} =>
             /\ last.err = last.log[1].err
             /\ last.err # NoErr => ret = <<>>
       /\ (last.op = "FindAllByName" /\ last.err = NoErr) =>
             /\ {ret[k] : k \in 1..Len(ret)} = {remote[i].id : i \in sel}
             /\ Len(ret) = Cardinality(sel)
             /\ \A k \in 1..Len(ret) - 1 : ret[k] < ret[k + 1]
       /\ (last.op = "FindByName" /\ last.err = NoErr) =>
             IF sel = {} THEN ret = <<>>
             ELSE ret = <<remote[CHOOSE i \in sel : \A j \in sel : i <= j].id>>

\* find-all returned the second and third of three records, one stored
\* under the zone-relative and one under the fully-qualified name
C22_Witness ==
    /\ last.op = "FindAllByName" /\ last.err = NoErr
    /\ last.plan.name = <<"a">>
    /\ Len(remote) = 3
    /\ remote[1].name = <<"b">> /\ remote[2].name = Fq(<<"a">>) /\ remote[3].name = <<"a">>
    /\ last.log[1].ret = <<2, 3>>

----------------------------------------------------------------------------
\* C23: an Update makes a list, delete or create call only after its update
\* call failed with zone_conflict under a plan with force_recreate; an
\* Update whose update call fails with zone_conflict without force_recreate,
\* or with any other error, returns that error, makes no other call, and
\* leaves the zone and the state as they were.
C23_EscalationOnlyOnForcedConflict ==
    [][(last'.op = "Update" /\ Len(last'.log) >= 1)
       => LET log == last'.log
              put == log[1]
              forced == Contains(put.err, "zone_conflict") /\ last'.plan.force_recreate
          IN /\ put.m = "PUT"
             /\ (Calls(log, "LIST") \cup Calls(log, "DELETE") \cup Calls(log, "POST")) # {}
                   => forced
             /\ (put.err # NoErr /\ ~forced)
                   => /\ last'.err = put.err
                      /\ Len(log) = 1
                      /\ remote' = remote
                      /\ tfstate' = tfstate]_vars

\* an Update of a kind that can escalate was refused with zone_conflict
\* under a plan without force_recreate, and returned the conflict
C23_Witness ==
    /\ last.op = "Update"
    /\ EscalatesOnUpdate(kind)
    /\ ~last.plan.force_recreate
    /\ Len(last.log) = 1
    /\ Contains(last.log[1].err, "zone_conflict")
    /\ last.err = last.log[1].err
    /\ tfstate # NoState

----------------------------------------------------------------------------
\* C24: an attempt whose rate-limit check finds no request remaining and
\* the reset time T of a 429 still ahead sleeps for the time left until T,
\* leaves the sleep only when that time has passed, and sends only after
\* the check or the sleep; an attempt whose check finds requests remaining,
\* or none remaining but T not ahead, goes on to send without sleeping.
C24_ExhaustedAttemptWaitsUntilReset ==
    [][\A c \in Callers :
         /\ (pc[c] = "wait_locked" /\ pc'[c] # "wait_locked") =>
               IF rateLimitRemaining <= 0 /\ rateLimitResetAt > 0
               THEN pc'[c] = "ratewait" /\ sleepLeft'[c] = rateLimitResetAt
               ELSE pc'[c] = "send" /\ sleepLeft'[c] = sleepLeft[c]
         /\ (pc[c] = "ratewait" /\ pc'[c] # "ratewait") =>
               sleepLeft[c] = 0 /\ pc'[c] = "wait_exit"
         /\ (pc[c] = "ratewait" /\ sleepLeft'[c] # sleepLeft[c]) =>
               /\ pc'[c] = "ratewait"
               /\ sleepLeft[c] - sleepLeft'[c] \in 1..sleepLeft[c]
         /\ (pc[c] = "wait_exit" /\ pc'[c] # "wait_exit") => pc'[c] = "send"
         /\ sends'[c] > sends[c] => pc[c] = "send"]_vars

\* a caller that found the limit exhausted by the other caller's 429 has
\* slept until the reset time and is about to send its first request
C24_Witness ==
    \E c \in Callers :
        /\ pc[c] = "wait_exit" /\ sends[c] = 0 /\ sleepLeft[c] = 0
        /\ rateLimitRemaining = 0 /\ rateLimitResetAt = 0
        /\ \E o \in Callers \ {c} : lastResp[o].status = 429

----------------------------------------------------------------------------
\* C26: while the reset time recorded for a 429 is still ahead, no caller
\* sends a request.
C26_NoSendBeforeReset ==
    [][\A c \in Callers : sends'[c] > sends[c] => rateLimitResetAt = 0]_vars

----------------------------------------------------------------------------
\* C25: when the Creates of two nameservers of different hostnames have
\* both returned without error, the domain's list holds both hostnames.
C25_BothCreatedBothListed ==
    (\A h \in Hostnames : creates[h].pc = "done" /\ creates[h].err = NoErr)
    => \A h \in Hostnames : Listed(nameservers, h)

----------------------------------------------------------------------------
\* the Update escalated: after its update call it went on to list the zone
Escalated(o) == o.op = "Update" /\ Calls(o.log, "LIST") # {}

\* C27: after an Update that escalated and returned no error, the record
\* whose id the state held before the Update is gone from the zone, unless
\* it is the record the state holds now.
C27_EscalationLeavesNoOrphan ==
    [][(Escalated(last') /\ last'.err = NoErr)
       => \/ ~Present(remote', tfstate.record_id)
          \/ tfstate'.record_id = tfstate.record_id]_vars

\* C28: an Update that escalated and returned an error has deleted no
\* record of the zone, and the record of the id in the state, if it was
\* there before the Update, is still there.
C28_FailedEscalationDeletesNothing ==
    [][(Escalated(last') /\ last'.err # NoErr)
       => /\ Ids(remote') = Ids(remote)
          /\ tfstate' = tfstate
          /\ Present(remote, tfstate.record_id) => Present(remote', tfstate'.record_id)]_vars

----------------------------------------------------------------------------
\* C29: a Read or Delete of a record whose call fails with anything other
\* than HTTP 404 reports that failure and keeps the resource in the state.
C29_OnlyStatus404IsAbsence ==
    [][(/\ last'.op \in {"Read", "Delete"}
        /\ Len(last'.log) >= 1
        /\ last'.log[1].err # NoErr
        /\ last'.log[1].err.status # 404)
       => /\ last'.err = last'.log[1].err
          /\ tfstate' = tfstate]_vars

----------------------------------------------------------------------------
\* C30: a Create or Update of the domain resource that returns an error
\* leaves the domain's autorenew, dnssec and nameservers_custom as they were.
C30_FailedDomainChangeChangesNothing ==
    [][(/\ kind = "domain"
        /\ dlast'.op \in {"Create", "Update"}
        /\ dlast'.err # NoErr)
       => /\ domain'.autorenew = domain.autorenew
          /\ domain'.dnssec = domain.dnssec
          /\ domain'.nameservers_custom = domain.nameservers_custom]_vars

====
